---------------------------- MODULE Spec2Model ----------------------------
(***************************************************************************)
(* Resilience layer of the email client: circuit breaker, token-bucket     *)
(* rate limiter, retry executor, connection pool and connection manager.   *)
(* Each component has its own specification (SpecCB, SpecRL, SpecRetry,    *)
(* SpecPool, SpecMgr); the variables of the other components stay at their *)
(* initial values in it.                                                   *)
(***************************************************************************)
EXTENDS Integers, Sequences, FiniteSets, TLC

VARIABLES
  \* ---- CircuitBreaker (client/circuit_breaker.go) ----
  state,                \* cb.state
  failureThreshold,     \* cb.failureThreshold
  resetTimeout,         \* cb.resetTimeout, in clock ticks
  halfOpenMaxRequests,  \* cb.halfOpenMaxRequests
  failureCount,         \* cb.failureCount
  successCount,         \* cb.successCount
  lastFailureTime,      \* cb.lastFailureTime
  requestCount,         \* cb.requestCount
  openStateListeners,   \* number of registered open listeners
  closeStateListeners,  \* number of registered close listeners
  cbNow,                \* time.Now() as seen by the breaker
  cbCall,               \* the last call: operation, result, listeners started
  \* history of the calls, kept for the properties only
  episodeAdmits,        \* IsAllowed()=true calls of the current half-open episode
  episodeSuccesses,     \* OnSuccess() calls of the current half-open episode
  consecFailures,       \* OnFailure() calls in Closed since the last OnSuccess/Reset
  calls,                \* the calls in flight: when each was admitted, and the successes
                        \* reported in this half-open episode by calls admitted in it
  \* ---- RateLimiter (middleware) ----
  tokens,               \* rl.tokens, in units of 1/TokenUnit token
  maxTokens,            \* rl.maxTokens, same unit
  refillRate,           \* rl.refillRate, units per clock tick (one tick = 1 s)
  lastRefillTime,       \* rl.lastRefillTime
  waitTimeout,          \* rl.waitTimeout, in ticks
  rlNow,                \* time.Now() as seen by the limiter
  rlCall,               \* the last call of the limiter: operation and result
  waiter,               \* the caller inside Wait(ctx): pc, deadline of waitCtx, ctx
                        \* cancelled, ticker.C ready, polls made after waitCtx ended
  unlockedAccess,       \* the mutable fields the last call touched without rl.mu
  rlConfig,             \* the RateLimiterConfig the limiter was built from
  \* history of the calls, kept for the properties only
  fresh,                \* only Allow() calls so far and no time elapsed
  freshCalls,           \* number of those Allow() calls
  window,               \* an interval of time under observation: its start and the
                        \* calls admitted in it
  \* ---- retry (client/email_service.go) ----
  retryConfig,          \* RetryConfig: MaxRetries, RetryDelay, RetryPolicy (set or nil)
  retryFn,              \* which executor runs: "WithRetryAndMetrics" or "RetryWithBackoff"
  retryPc,              \* where the executor is: "start", "invoke", "sleep", "done"
  attempt,              \* the loop variable
  lastErr,              \* the lastErr local
  delay,                \* the delay of the backoff sleep in progress (ms)
  ctxDone,              \* the context of the call is cancelled or past its deadline
  timerFired,           \* the timer of the backoff wait in progress has expired
  retryResult,          \* the error Execute returned
  recorded,             \* the metrics.RecordRequest(success, _) calls made
  outcomes,             \* the outcome of each invocation of the operation, in order
  cancelledInSleep,     \* history: ctx ended during a backoff wait whose timer was running
  \* ---- ConnectionPool (conn) ----
  config,               \* p.config after NewConnectionPool adjusted it
  pool,                 \* p.pool: the buffered channel of idle connections, oldest first
  poolChanClosed,       \* close(p.pool) was done
  counter,              \* p.counter
  closed,               \* p.closed
  muLocked,             \* p.mu is held for writing (by Close)
  held,                 \* how many connections callers got from Get and have not Put back
  getter,               \* per calling goroutine inside Get: pc, currentCount, conn in hand
  getRet,               \* per calling goroutine: what its last Get returned
  putter,               \* the goroutine inside Put: pc and the connection
  putRet,               \* what the last Put returned
  checker,              \* the healthCheck goroutine: pc and the locals of performHealthCheck
  closer,               \* the goroutine inside Close
  onCloseCalls,         \* how often the close callbacks were run
  panicked,             \* a goroutine panicked (send on a closed channel, nil dereference)
  poolNow,              \* time.Now() as seen by the pool
  \* ---- conn.Manager (client/conn/manager.go) ----
  handles,              \* the state of every grpc.ClientConn the manager dialed
  mgrConn,              \* m.conn
  connectionMutex,      \* who holds m.connectionMutex
  healthChecker,        \* m.healthChecker: "nil" or "running"
  withHealthCheck,      \* NewManager was given WithHealthCheck(true, interval > 0)
  mgrBuilt,             \* NewManager has returned the manager
  caller,               \* per goroutine inside connect/Reconnect: pc, operation, locals
  mgrRet,               \* per goroutine: what its last call returned
  \* history, kept for the properties only
  observedReady,        \* the handles whose GetState() was Ready in the connect loop
  \* ---- conn.HealthChecker (client/conn/health.go) ----
  isRunning,            \* h.isRunning
  stopChan,             \* h.stopChan: "open" or "closed"
  runLoops,             \* the goroutines inside h.run()
  hcPanicked,           \* a call has panicked
  \* history, kept for the properties only
  hcCalls,              \* the calls of Start and Stop made so far, in order
  lastChange,           \* the last call that got past its isRunning test
  sampled               \* a loop has run checkHealth since the last Start

cbVars == <<state, failureThreshold, resetTimeout, halfOpenMaxRequests,
            failureCount, successCount, lastFailureTime, requestCount,
            openStateListeners, closeStateListeners, cbNow, cbCall,
            episodeAdmits, episodeSuccesses, consecFailures, calls>>

rlVars == <<tokens, maxTokens, refillRate, lastRefillTime, waitTimeout, rlNow,
            rlCall, waiter, unlockedAccess, rlConfig, fresh, freshCalls,
            window>>

retryVars == <<retryConfig, retryFn, retryPc, attempt, lastErr, delay, ctxDone,
               timerFired, retryResult, recorded, outcomes, cancelledInSleep>>

poolVars == <<config, pool, poolChanClosed, counter, closed, muLocked, held,
              getter, getRet, putter, putRet, checker, closer, onCloseCalls,
              panicked, poolNow>>

mgrVars == <<handles, mgrConn, connectionMutex, healthChecker, withHealthCheck,
             mgrBuilt, caller, mgrRet, observedReady>>

hcVars == <<isRunning, stopChan, runLoops, hcPanicked, hcCalls, lastChange, sampled>>

vars == <<cbVars, rlVars, retryVars, poolVars, mgrVars, hcVars>>

\* what the calls on one component leave alone: the other components
OthersOfCB == <<rlVars, retryVars, poolVars, mgrVars, hcVars>>
OthersOfRL == <<cbVars, retryVars, poolVars, mgrVars, hcVars>>
OthersOfRetry == <<cbVars, rlVars, poolVars, mgrVars, hcVars>>
OthersOfPool == <<cbVars, rlVars, retryVars, mgrVars, hcVars>>
OthersOfMgr == <<cbVars, rlVars, retryVars, poolVars, hcVars>>
OthersOfHC == <<cbVars, rlVars, retryVars, poolVars, mgrVars>>

(***************************************************************************)
(* Bounds of the model.                                                    *)
(***************************************************************************)
MaxThreshold == 3
MaxHalfOpen == 2
MaxResetTimeout == 2
MaxTime == 4
MaxListeners == 1
\* rate limiter: one token is TokenUnit units; rates and bursts are in units
TokenUnit == 2
MaxRate == 2
MaxBurst == 5
MaxWaitTimeout == 1
RLMaxTime == 2
\* retry: the largest MaxRetries tried
MaxRetriesBound == 3
\* pool: the largest MaxSize, InitialSize and MinIdle configured, the last
\* clock value
PoolMaxSize == 1
PoolMaxInitial == 1
PoolMaxMinIdle == 1
PoolMaxTime == 2
MaxAcquireTimeout == 1
\* the largest MaxSize of a pool whose callers race for slots
PoolRaceMaxSize == 2
\* health checker: the number of calls of Start and Stop in a run
MaxHCCalls == 5

\* manager: the number of handles grpc.NewClient can make in one run
MaxHandles == 3
\* breaker: the number of goroutines that send calls through it
MaxCallers == 2

Min(a, b) == IF a < b THEN a ELSE b
Max(a, b) == IF a > b THEN a ELSE b

(***************************************************************************)
(* CircuitBreaker                                                          *)
(***************************************************************************)
CircuitClosed == "CLOSED"
CircuitOpen == "OPEN"
CircuitHalfOpen == "HALF_OPEN"

\* the zero time.Time of a breaker that never failed; the clock starts after it
ZeroTime == 0

\* NewCircuitBreaker: a HalfOpenMaxRequests <= 0 becomes 1
NormalizeHalfOpenMax(c) == IF c <= 0 THEN 1 ELSE c

\* cb.lastFailureTime.Add(cb.resetTimeout).Before(now)
ResetTimeoutElapsed(lft, rt, t) == lft + rt < t

\* cb.requestCount < cb.halfOpenMaxRequests
HalfOpenSlotFree(rc, hmax) == rc < hmax

\* the breaker opening one failure late
ThresholdReached_Late(fc, th) == fc > th

\* cb.failureCount >= cb.failureThreshold
ThresholdReached(fc, th) == fc >= th

\* the breaker closing at the first successful probe
ProbesSucceeded_First(sc, hmax) == sc >= 1

\* cb.successCount >= cb.halfOpenMaxRequests
ProbesSucceeded(sc, hmax) == sc >= hmax

\* an OnFailure that does not record the time of the failure
FailureStamp_Kept(lft, now) == lft

\* cb.lastFailureTime = time.Now(), before the switch on the state
FailureStamp(lft, now) == now

\* a Reset that notifies the close listeners whenever the breaker was not Closed
ResetNotifies_NotClosed(prevState) == prevState # CircuitClosed

\* Reset: if prevState == CircuitOpen
ResetNotifies(prevState) == prevState = CircuitOpen

\* for _, listener := range listeners { go listener() }: each listener started once
NotifyAll(n) == [l \in 1..n |-> 1]
NotifyNone(n) == [l \in 1..n |-> 0]

CBCall(op, ret, nOpened, nClosed) ==
  [op |-> op, ret |-> ret, opened |-> nOpened, closed |-> nClosed]

\* the goroutines that ask IsAllowed(), make their call and report its outcome
Callers == 1..MaxCallers
NoCalls == [tag |-> [i \in Callers |-> "none"], reported |-> 0]

CBConfig == <<failureThreshold, resetTimeout, halfOpenMaxRequests>>
CBListeners == <<openStateListeners, closeStateListeners>>

CBInit ==
  /\ state = CircuitClosed
  /\ failureThreshold \in 0..MaxThreshold
  /\ resetTimeout \in 0..MaxResetTimeout
  /\ \E c \in 0..MaxHalfOpen : halfOpenMaxRequests = NormalizeHalfOpenMax(c)
  /\ failureCount = 0
  /\ successCount = 0
  /\ lastFailureTime = ZeroTime
  /\ requestCount = 0
  /\ openStateListeners = 0
  /\ closeStateListeners = 0
  /\ cbNow = 1
  /\ cbCall = CBCall("none", FALSE, NotifyNone(0), NotifyNone(0))
  /\ episodeAdmits = 0
  /\ episodeSuccesses = 0
  /\ consecFailures = 0
  /\ calls = NoCalls

\* the idle value of the breaker in the specifications of the other components
CBIdle ==
  /\ state = CircuitClosed
  /\ failureThreshold = 1
  /\ resetTimeout = 0
  /\ halfOpenMaxRequests = 1
  /\ failureCount = 0
  /\ successCount = 0
  /\ lastFailureTime = ZeroTime
  /\ requestCount = 0
  /\ openStateListeners = 0
  /\ closeStateListeners = 0
  /\ cbNow = 1
  /\ cbCall = CBCall("none", FALSE, NotifyNone(0), NotifyNone(0))
  /\ episodeAdmits = 0
  /\ episodeSuccesses = 0
  /\ consecFailures = 0
  /\ calls = NoCalls

AddOpenStateListener ==
  /\ UNCHANGED OthersOfCB
  /\ openStateListeners < MaxListeners
  /\ openStateListeners' = openStateListeners + 1
  /\ cbCall' = CBCall("AddOpenStateListener", FALSE,
                      NotifyNone(openStateListeners'), NotifyNone(closeStateListeners))
  /\ UNCHANGED <<state, CBConfig, failureCount, successCount, lastFailureTime,
                 requestCount, closeStateListeners, cbNow,
                 episodeAdmits, episodeSuccesses, consecFailures>>

AddCloseStateListener ==
  /\ UNCHANGED OthersOfCB
  /\ closeStateListeners < MaxListeners
  /\ closeStateListeners' = closeStateListeners + 1
  /\ cbCall' = CBCall("AddCloseStateListener", FALSE,
                      NotifyNone(openStateListeners), NotifyNone(closeStateListeners'))
  /\ UNCHANGED <<state, CBConfig, failureCount, successCount, lastFailureTime,
                 requestCount, openStateListeners, cbNow,
                 episodeAdmits, episodeSuccesses, consecFailures>>

\* the clock of the breaker advances
CBTick ==
  /\ UNCHANGED OthersOfCB
  /\ cbNow < MaxTime
  /\ cbNow' = cbNow + 1
  /\ UNCHANGED <<state, CBConfig, CBListeners, failureCount, successCount,
                 lastFailureTime, requestCount, cbCall,
                 episodeAdmits, episodeSuccesses, consecFailures>>

IsAllowed ==
  /\ UNCHANGED OthersOfCB
  /\ UNCHANGED <<CBConfig, CBListeners, failureCount, lastFailureTime, cbNow,
                 consecFailures>>
  /\ CASE state = CircuitClosed ->
            /\ cbCall' = CBCall("IsAllowed", TRUE, NotifyNone(openStateListeners),
                                NotifyNone(closeStateListeners))
            /\ UNCHANGED <<state, requestCount, successCount, episodeAdmits,
                           episodeSuccesses>>
       [] state = CircuitOpen ->
            IF ResetTimeoutElapsed(lastFailureTime, resetTimeout, cbNow)
            THEN /\ state' = CircuitHalfOpen
                 /\ requestCount' = 0
                 /\ successCount' = 0
                 /\ episodeAdmits' = 1
                 /\ episodeSuccesses' = 0
                 /\ cbCall' = CBCall("IsAllowed", TRUE, NotifyNone(openStateListeners),
                                     NotifyNone(closeStateListeners))
            ELSE /\ cbCall' = CBCall("IsAllowed", FALSE, NotifyNone(openStateListeners),
                                     NotifyNone(closeStateListeners))
                 /\ UNCHANGED <<state, requestCount, successCount, episodeAdmits,
                                episodeSuccesses>>
       [] state = CircuitHalfOpen ->
            IF HalfOpenSlotFree(requestCount, halfOpenMaxRequests)
            THEN /\ requestCount' = requestCount + 1
                 /\ episodeAdmits' = Min(episodeAdmits + 1, MaxHalfOpen + 2)
                 /\ cbCall' = CBCall("IsAllowed", TRUE, NotifyNone(openStateListeners),
                                     NotifyNone(closeStateListeners))
                 /\ UNCHANGED <<state, successCount, episodeSuccesses>>
            ELSE /\ cbCall' = CBCall("IsAllowed", FALSE, NotifyNone(openStateListeners),
                                     NotifyNone(closeStateListeners))
                 /\ UNCHANGED <<state, requestCount, successCount, episodeAdmits,
                                episodeSuccesses>>

OnSuccess ==
  /\ UNCHANGED OthersOfCB
  /\ UNCHANGED <<CBConfig, CBListeners, lastFailureTime, requestCount, cbNow>>
  /\ CASE state = CircuitClosed ->
            /\ failureCount' = 0
            /\ consecFailures' = 0
            /\ cbCall' = CBCall("OnSuccess", FALSE, NotifyNone(openStateListeners),
                                NotifyNone(closeStateListeners))
            /\ UNCHANGED <<state, successCount, episodeAdmits, episodeSuccesses>>
       [] state = CircuitHalfOpen ->
            /\ successCount' = successCount + 1
            /\ IF ProbesSucceeded(successCount', halfOpenMaxRequests)
               THEN /\ state' = CircuitClosed
                    /\ failureCount' = 0
                    /\ cbCall' = CBCall("OnSuccess", FALSE,
                                        NotifyNone(openStateListeners),
                                        NotifyAll(closeStateListeners))
                    /\ episodeAdmits' = 0
                    /\ episodeSuccesses' = Min(episodeSuccesses + 1, MaxHalfOpen + 2)
                    /\ consecFailures' = 0
               ELSE /\ cbCall' = CBCall("OnSuccess", FALSE,
                                        NotifyNone(openStateListeners),
                                        NotifyNone(closeStateListeners))
                    /\ episodeSuccesses' = Min(episodeSuccesses + 1, MaxHalfOpen + 2)
                    /\ UNCHANGED <<state, failureCount, episodeAdmits, consecFailures>>
       [] state = CircuitOpen ->
            /\ cbCall' = CBCall("OnSuccess", FALSE, NotifyNone(openStateListeners),
                                NotifyNone(closeStateListeners))
            /\ UNCHANGED <<state, failureCount, successCount,
                           episodeAdmits, episodeSuccesses, consecFailures>>

OnFailure ==
  /\ UNCHANGED OthersOfCB
  /\ UNCHANGED <<CBConfig, CBListeners, successCount, requestCount, cbNow,
                 episodeSuccesses>>
  /\ lastFailureTime' = FailureStamp(lastFailureTime, cbNow)
  /\ CASE state = CircuitClosed ->
            /\ failureCount' = Min(failureCount + 1, MaxThreshold + 2)
            /\ consecFailures' = Min(consecFailures + 1, MaxThreshold + 2)
            /\ IF ThresholdReached(failureCount', failureThreshold)
               THEN /\ state' = CircuitOpen
                    /\ cbCall' = CBCall("OnFailure", FALSE,
                                        NotifyAll(openStateListeners),
                                        NotifyNone(closeStateListeners))
               ELSE /\ cbCall' = CBCall("OnFailure", FALSE,
                                        NotifyNone(openStateListeners),
                                        NotifyNone(closeStateListeners))
                    /\ UNCHANGED state
            /\ UNCHANGED episodeAdmits
       [] state = CircuitHalfOpen ->
            /\ state' = CircuitOpen
            /\ cbCall' = CBCall("OnFailure", FALSE, NotifyAll(openStateListeners),
                                NotifyNone(closeStateListeners))
            /\ episodeAdmits' = 0
            /\ UNCHANGED <<failureCount, consecFailures>>
       [] state = CircuitOpen ->
            /\ cbCall' = CBCall("OnFailure", FALSE, NotifyNone(openStateListeners),
                                NotifyNone(closeStateListeners))
            /\ UNCHANGED <<state, failureCount, episodeAdmits, consecFailures>>

Reset ==
  /\ UNCHANGED OthersOfCB
  /\ state' = CircuitClosed
  /\ failureCount' = 0
  /\ successCount' = 0
  /\ requestCount' = 0
  /\ cbCall' = CBCall("Reset", FALSE, NotifyNone(openStateListeners),
                      IF ResetNotifies(state) THEN NotifyAll(closeStateListeners)
                                             ELSE NotifyNone(closeStateListeners))
  /\ episodeAdmits' = 0
  /\ consecFailures' = 0
  /\ UNCHANGED <<CBConfig, CBListeners, lastFailureTime, cbNow, episodeSuccesses>>

\* the operations called with no record of who calls them
CBNext ==
  /\ UNCHANGED calls
  /\ \/ AddOpenStateListener
     \/ AddCloseStateListener
     \/ CBTick
     \/ IsAllowed
     \/ OnSuccess
     \/ OnFailure
     \/ Reset

\* ---- callers: if cb.IsAllowed() { err := call(); if err != nil
\* { cb.OnFailure() } else { cb.OnSuccess() } } ----
\* a call admitted in a half-open episode belongs to it until the breaker
\* leaves HalfOpen
TagAfter(tag, st) == IF tag = "episode" /\ st # CircuitHalfOpen THEN "old" ELSE tag

\* goroutine i asks IsAllowed() and, admitted, starts its call
CallIsAllowed(i) ==
  /\ calls.tag[i] = "none"
  /\ IsAllowed
  /\ calls' = [tag |-> [calls.tag EXCEPT ![i] =
                          IF ~cbCall'.ret THEN "none"
                          ELSE IF state' = CircuitHalfOpen THEN "episode" ELSE "old"],
               reported |-> IF state = CircuitOpen /\ state' = CircuitHalfOpen
                            THEN 0 ELSE calls.reported]

\* the call of goroutine i has succeeded
CallOnSuccess(i) ==
  /\ calls.tag[i] # "none"
  /\ OnSuccess
  /\ calls' = [tag |-> [j \in Callers |->
                          IF j = i THEN "none" ELSE TagAfter(calls.tag[j], state')],
               reported |-> IF calls.tag[i] = "episode" THEN calls.reported + 1
                            ELSE calls.reported]

\* the call of goroutine i has failed
CallOnFailure(i) ==
  /\ calls.tag[i] # "none"
  /\ OnFailure
  /\ calls' = [tag |-> [j \in Callers |->
                          IF j = i THEN "none" ELSE TagAfter(calls.tag[j], state')],
               reported |-> calls.reported]

CBCallsNext ==
  \/ CBTick /\ UNCHANGED calls
  \/ \E i \in Callers :
       \/ CallIsAllowed(i)
       \/ CallOnSuccess(i)
       \/ CallOnFailure(i)

(***************************************************************************)
(* RateLimiter                                                             *)
(***************************************************************************)
RLCall(op, ret) == [op |-> op, ret |-> ret]

WaiterIdle == [pc |-> "idle", deadline |-> 0, cancelled |-> FALSE,
               tickerReady |-> FALSE, late |-> 0]

\* a Wait whose waitCtx does not follow the cancellation of the caller's ctx
DoneReady_DeadlineOnly(w, now) == now >= w.deadline

\* <-waitCtx.Done() can be received: the timeout is over or ctx is cancelled
DoneReady(w, now) == w.cancelled \/ now >= w.deadline

\* the caller in Wait can take a step now: no time passes before it does
WaiterRunnable == waiter.pc = "waiting" /\ (DoneReady(waiter, rlNow) \/ waiter.tickerReady)

\* no interval is observed
NoWindow == [on |-> FALSE, start |-> 0, admitted |-> 0]

\* a call was admitted or refused while an interval is observed
Admit(w, ok) == IF w.on /\ ok THEN [w EXCEPT !.admitted = @ + 1] ELSE w

\* NewRateLimiter: RequestsPerSecond <= 0 becomes 1.0
NormalizeRate(rps) == IF rps <= 0 THEN TokenUnit ELSE rps

\* NewRateLimiter: MaxBurst <= 0 becomes RequestsPerSecond
NormalizeBurst(burst, rps) == IF burst <= 0 THEN NormalizeRate(rps) ELSE burst

\* refillTokens keeping more than the bucket holds
Clamp_Missing(t, cap) == t

\* if rl.tokens > rl.maxTokens { rl.tokens = rl.maxTokens }
Clamp(t, cap) == IF t > cap THEN cap ELSE t

\* a refill that credits whole tokens only
RefillTokens_WholeTokens(t, cap, rate, last, now) ==
  IF now - last > 0
  THEN [tokens |-> Clamp(((t + (now - last) * rate) \div TokenUnit) * TokenUnit, cap),
        last |-> now]
  ELSE [tokens |-> t, last |-> last]

\* refillTokens: the tokens and lastRefillTime it leaves
RefillTokens(t, cap, rate, last, now) ==
  IF now - last > 0
  THEN [tokens |-> Clamp(t + (now - last) * rate, cap), last |-> now]
  ELSE [tokens |-> t, last |-> last]

\* a SetRate that leaves the capacity of the bucket alone
RaisesMaxTokens_Never(rps, cap) == FALSE

\* SetRate: if requestsPerSecond > rl.maxTokens
RaisesMaxTokens(rps, cap) == rps > cap

\* Allow admitting on any credit at all
HasToken_AnyCredit(t) == t > 0

\* rl.tokens >= 1
HasToken(t) == t >= TokenUnit

RLInitWith(rps, burst, wt) ==
  /\ rlConfig = [RequestsPerSecond |-> rps, MaxBurst |-> burst, WaitTimeout |-> wt]
  /\ tokens = NormalizeBurst(burst, rps)
  /\ maxTokens = NormalizeBurst(burst, rps)
  /\ refillRate = NormalizeRate(rps)
  /\ lastRefillTime = 0
  /\ waitTimeout = wt
  /\ rlNow = 0
  /\ rlCall = RLCall("none", FALSE)
  /\ waiter = WaiterIdle
  /\ unlockedAccess = {}
  /\ fresh = TRUE
  /\ freshCalls = 0
  /\ window = NoWindow

\* the idle value of the limiter in the specifications of the other components
RLIdle == RLInitWith(1, 1, 0)

RLInit ==
  /\ \E rps \in 0..MaxRate, burst \in 0..MaxBurst, wt \in 0..MaxWaitTimeout :
       RLInitWith(rps, burst, wt)

RLConst == <<waitTimeout, rlConfig>>

\* the clock of the limiter advances
RLTick ==
  /\ UNCHANGED OthersOfRL
  /\ rlNow < RLMaxTime
  /\ ~WaiterRunnable
  /\ rlNow' = rlNow + 1
  /\ fresh' = FALSE
  /\ waiter' = IF waiter.pc = "waiting" THEN [waiter EXCEPT !.tickerReady = TRUE]
                ELSE waiter
  /\ UNCHANGED <<tokens, maxTokens, refillRate, lastRefillTime, rlCall,
                 unlockedAccess, RLConst, freshCalls, window>>

\* the ticker of Wait fires: one polling interval passed
TickerFires ==
  /\ UNCHANGED OthersOfRL
  /\ waiter.pc = "waiting"
  /\ ~WaiterRunnable
  /\ waiter' = [waiter EXCEPT !.tickerReady = TRUE]
  /\ UNCHANGED <<tokens, maxTokens, refillRate, lastRefillTime, rlNow, rlCall,
                 unlockedAccess, RLConst, fresh, freshCalls, window>>

\* the caller of Wait cancels ctx
WaitCtxCancel ==
  /\ UNCHANGED OthersOfRL
  /\ waiter.pc = "waiting"
  /\ ~waiter.cancelled
  /\ waiter' = [waiter EXCEPT !.cancelled = TRUE]
  /\ UNCHANGED <<tokens, maxTokens, refillRate, lastRefillTime, rlNow, rlCall,
                 unlockedAccess, RLConst, fresh, freshCalls, window>>

\* the body of Allow under the lock: refill, then take one token if there is one
AllowBody(ret) ==
  LET r == RefillTokens(tokens, maxTokens, refillRate, lastRefillTime, rlNow)
  IN /\ lastRefillTime' = r.last
     /\ ret = HasToken(r.tokens)
     /\ tokens' = IF ret THEN r.tokens - TokenUnit ELSE r.tokens
     /\ UNCHANGED <<maxTokens, refillRate>>

Allow ==
  /\ UNCHANGED OthersOfRL
  /\ \E ret \in BOOLEAN :
       /\ AllowBody(ret)
       /\ rlCall' = RLCall("Allow", ret)
       /\ window' = Admit(window, ret)
  /\ freshCalls' = IF fresh THEN Min(freshCalls + 1, MaxBurst + 2) ELSE freshCalls
  /\ unlockedAccess' = {}
  /\ UNCHANGED <<rlNow, waiter, RLConst, fresh>>

GetAvailableTokens ==
  /\ UNCHANGED OthersOfRL
  /\ LET r == RefillTokens(tokens, maxTokens, refillRate, lastRefillTime, rlNow)
     IN /\ tokens' = r.tokens
        /\ lastRefillTime' = r.last
        /\ rlCall' = RLCall("GetAvailableTokens", r.tokens)
  /\ unlockedAccess' = {}
  /\ fresh' = FALSE
  /\ UNCHANGED <<maxTokens, refillRate, rlNow, waiter, RLConst, freshCalls, window>>

SetRate ==
  /\ UNCHANGED OthersOfRL
  /\ \E rps \in 0..MaxRate :
       IF rps <= 0
       THEN /\ rlCall' = RLCall("SetRate", rps)
            /\ UNCHANGED <<tokens, maxTokens, refillRate, lastRefillTime>>
       ELSE LET r == RefillTokens(tokens, maxTokens, refillRate, lastRefillTime, rlNow)
            IN /\ lastRefillTime' = r.last
               /\ refillRate' = rps
               /\ maxTokens' = IF RaisesMaxTokens(rps, maxTokens) THEN rps ELSE maxTokens
               /\ tokens' = IF RaisesMaxTokens(rps, maxTokens) THEN Clamp(r.tokens, rps)
                            ELSE r.tokens
               /\ rlCall' = RLCall("SetRate", rps)
  /\ unlockedAccess' = {}
  /\ fresh' = FALSE
  /\ UNCHANGED <<rlNow, waiter, RLConst, freshCalls, window>>

\* Wait(ctx) up to its first Allow(): with waitTimeout <= 0 that one call decides
\* and a refusal builds its error from rl.refillRate, read without rl.mu;
\* otherwise waitCtx ends after min(waitTimeout, time to the deadline of ctx),
\* or when ctx is cancelled (it may be so already)
WaitBegin ==
  /\ UNCHANGED OthersOfRL
  /\ waiter.pc = "idle"
  /\ rlNow + Max(waitTimeout, 0) <= RLMaxTime
  /\ \E ret \in BOOLEAN, ctxLeft \in 0..MaxWaitTimeout + 1, ctxCancelled \in BOOLEAN :
       /\ AllowBody(ret)
       /\ window' = Admit(window, ret)
       /\ IF waitTimeout <= 0
          THEN /\ rlCall' = RLCall("Wait", IF ret THEN "nil" ELSE "RateLimitExceeded")
               /\ unlockedAccess' = IF ret THEN {} ELSE {"refillRate"}
               /\ waiter' = WaiterIdle
          ELSE IF ret
          THEN /\ rlCall' = RLCall("Wait", "nil")
               /\ unlockedAccess' = {}
               /\ waiter' = WaiterIdle
          ELSE /\ rlCall' = RLCall("Wait", "waiting")
               /\ unlockedAccess' = {}
               /\ waiter' = [WaiterIdle EXCEPT !.pc = "waiting",
                                               !.deadline = rlNow + Min(waitTimeout, ctxLeft),
                                               !.cancelled = ctxCancelled]
  /\ fresh' = FALSE
  /\ UNCHANGED <<rlNow, RLConst, freshCalls>>

\* case <-ticker.C: the loop tries Allow() again
WaitPoll ==
  /\ UNCHANGED OthersOfRL
  /\ waiter.pc = "waiting"
  /\ waiter.tickerReady
  /\ \E ret \in BOOLEAN :
       /\ AllowBody(ret)
       /\ window' = Admit(window, ret)
       /\ IF ret
          THEN /\ rlCall' = RLCall("Wait", "nil")
               /\ waiter' = WaiterIdle
          ELSE /\ rlCall' = RLCall("Wait", "waiting")
               /\ waiter' = [waiter EXCEPT
                               !.tickerReady = FALSE,
                               !.late = IF waiter.cancelled \/ rlNow >= waiter.deadline
                                        THEN Min(@ + 1, 2) ELSE @]
  /\ unlockedAccess' = {}
  /\ UNCHANGED <<rlNow, RLConst, fresh, freshCalls>>

\* case <-waitCtx.Done(): the timeout passed or the caller cancelled ctx; the
\* error is built from rl.refillRate, read without rl.mu
WaitDone ==
  /\ UNCHANGED OthersOfRL
  /\ waiter.pc = "waiting"
  /\ DoneReady(waiter, rlNow)
  /\ rlCall' = RLCall("Wait", "RateLimitExceeded")
  /\ unlockedAccess' = {"refillRate"}
  /\ waiter' = WaiterIdle
  /\ UNCHANGED <<tokens, maxTokens, refillRate, lastRefillTime, rlNow, RLConst,
                 fresh, freshCalls, window>>

\* the observation of an interval begins now
WindowStart ==
  /\ UNCHANGED OthersOfRL
  /\ ~window.on
  /\ window' = [on |-> TRUE, start |-> rlNow, admitted |-> 0]
  /\ UNCHANGED <<tokens, maxTokens, refillRate, lastRefillTime, rlNow, rlCall,
                 waiter, unlockedAccess, RLConst, fresh, freshCalls>>

\* the limiter at a fixed rate, with an interval observed from some time on
RLFixedRateNext ==
  \/ RLTick
  \/ TickerFires
  \/ WaitCtxCancel
  \/ Allow
  \/ GetAvailableTokens
  \/ WaitBegin
  \/ WaitPoll
  \/ WaitDone
  \/ WindowStart

RLNext ==
  \/ RLTick
  \/ TickerFires
  \/ WaitCtxCancel
  \/ Allow
  \/ GetAvailableTokens
  \/ SetRate
  \/ WaitBegin
  \/ WaitPoll
  \/ WaitDone

(***************************************************************************)
(* Retry: the interceptor WithRetryAndMetrics and RetryWithBackoff         *)
(***************************************************************************)
Nil == [type |-> "nil"]

StatusErr(code) == [type |-> "status", code |-> code]
\* an error that carries no gRPC status: what errors.Is finds in it, and
\* whether its text holds one of the connection keywords
PlainErr(is, keyword) == [type |-> "plain", is |-> is, keyword |-> keyword]

\* var retryableCodes
retryableCodes ==
  {"Unavailable", "DeadlineExceeded", "ResourceExhausted", "Aborted", "Internal"}

\* isConnectionError: a keyword in the text, or (inside the loop over the
\* keywords) a context error
isConnectionError(err) ==
  IF err = Nil THEN FALSE
  ELSE err.keyword \/ err.is \in {"context.DeadlineExceeded", "context.Canceled"}

isRetryableError(err) ==
  IF err = Nil THEN FALSE
  ELSE IF err.type = "status" THEN err.code \in retryableCodes
  ELSE \/ err.is = "context.DeadlineExceeded"
       \/ err.is = "context.Canceled"
       \/ isConnectionError(err)

\* the errors the operation is made to return
SampleErrors ==
  {StatusErr("Unavailable"), StatusErr("Internal"), StatusErr("NotFound"),
   PlainErr("context.Canceled", FALSE), PlainErr("none", TRUE),
   PlainErr("none", FALSE)}

\* fmt.Errorf("... %d ...: %w", MaxRetries+1, lastErr)
Exhausted(attempts, err) == [type |-> "exhausted", attempts |-> attempts, wraps |-> err]

\* ctx.Err()
CtxErr == [type |-> "plain", is |-> "context.Canceled", keyword |-> FALSE]

\* ExponentialBackoff: (1 << attempt) * 100ms
ExponentialBackoff(a) == (2 ^ a) * 100

\* delay := RetryDelay; if RetryPolicy != nil { delay = RetryPolicy(attempt) }
DelayOf(cfg, a) == IF cfg.RetryPolicy THEN ExponentialBackoff(a) ELSE cfg.RetryDelay

\* a loop that gives up one attempt early
LoopContinues_Short(a, maxRetries) == a < maxRetries

\* for attempt := 0; attempt <= maxRetries; attempt++
LoopContinues(a, maxRetries) == a <= maxRetries

\* if attempt == maxRetries { break }
IsLastAttempt(a, maxRetries) == a = maxRetries

\* an executor that goes on after a terminal error
EndsLoop_OnlySuccess(err) == err = Nil

\* err == nil, or !isRetryableError(err): the invocation that ends the loop
EndsLoop(err) == err = Nil \/ ~isRetryableError(err)

\* a backoff wait that is a plain sleep
SleepWatchesCtx_Never(fn) == FALSE

\* the backoff wait selects on ctx.Done(): the interceptor does, RetryWithBackoff
\* takes no context and calls time.Sleep
SleepWatchesCtx(fn) == fn = "WithRetryAndMetrics"

RetryInitWith(fn, n, policy) ==
  /\ retryConfig = [MaxRetries |-> n, RetryDelay |-> 500, RetryPolicy |-> policy]
  /\ retryFn = fn
  /\ retryPc = "start"
  /\ attempt = 0
  /\ lastErr = Nil
  /\ delay = 0
  /\ ctxDone = FALSE
  /\ timerFired = FALSE
  /\ retryResult = Nil
  /\ recorded = <<>>
  /\ outcomes = <<>>
  /\ cancelledInSleep = FALSE

RetryIdle == RetryInitWith("RetryWithBackoff", 0, FALSE)

RetryInit ==
  \E fn \in {"WithRetryAndMetrics", "RetryWithBackoff"},
     n \in -1..MaxRetriesBound, policy \in BOOLEAN :
       RetryInitWith(fn, n, policy)

\* the caller cancels the context of the call, or its deadline passes
CtxCancel ==
  /\ UNCHANGED OthersOfRetry
  /\ retryFn = "WithRetryAndMetrics"
  /\ retryPc \in {"invoke", "sleep"}
  /\ ~ctxDone
  /\ ctxDone' = TRUE
  /\ cancelledInSleep' = (retryPc = "sleep" /\ ~timerFired)
  /\ UNCHANGED <<retryConfig, retryFn, retryPc, attempt, lastErr, delay,
                 timerFired, retryResult, recorded, outcomes>>

\* the timer of time.After(delay) or time.Sleep(delay) expires; no time passes
\* while the waiting goroutine can receive from ctx.Done()
TimerFires ==
  /\ UNCHANGED OthersOfRetry
  /\ retryPc = "sleep"
  /\ ~timerFired
  /\ ~(SleepWatchesCtx(retryFn) /\ ctxDone)
  /\ timerFired' = TRUE
  /\ UNCHANGED <<retryConfig, retryFn, retryPc, attempt, lastErr, delay, ctxDone,
                 retryResult, recorded, outcomes, cancelledInSleep>>

\* the interceptor with maxRetries <= 0: one invocation, its outcome returned
SingleCall ==
  /\ UNCHANGED OthersOfRetry
  /\ retryPc = "start"
  /\ retryFn = "WithRetryAndMetrics"
  /\ retryConfig.MaxRetries <= 0
  /\ \E err \in SampleErrors \cup {Nil} :
       /\ outcomes' = Append(outcomes, err)
       /\ recorded' = Append(recorded, err = Nil)
       /\ retryResult' = err
  /\ retryPc' = "done"
  /\ UNCHANGED <<retryConfig, retryFn, attempt, lastErr, delay, ctxDone,
                 timerFired, cancelledInSleep>>

\* entering the loop: attempt := 0 and the loop condition
LoopEnter ==
  /\ UNCHANGED OthersOfRetry
  /\ retryPc = "start"
  /\ retryFn = "WithRetryAndMetrics" => retryConfig.MaxRetries > 0
  /\ IF LoopContinues(0, retryConfig.MaxRetries)
     THEN /\ retryPc' = "invoke"
          /\ UNCHANGED retryResult
     ELSE /\ retryPc' = "done"
          /\ retryResult' = Exhausted(retryConfig.MaxRetries + 1, lastErr)
  /\ UNCHANGED <<retryConfig, retryFn, attempt, lastErr, delay, ctxDone,
                 timerFired, recorded, outcomes, cancelledInSleep>>

\* one invocation of the operation and what the loop does with its outcome
Invoke ==
  /\ UNCHANGED OthersOfRetry
  /\ retryPc = "invoke"
  /\ \E err \in SampleErrors \cup {Nil} :
       /\ outcomes' = Append(outcomes, err)
       /\ IF EndsLoop(err)
          THEN /\ retryPc' = "done"
               /\ retryResult' = err
               /\ recorded' = IF retryFn = "WithRetryAndMetrics"
                              THEN Append(recorded, err = Nil) ELSE recorded
               /\ UNCHANGED <<attempt, lastErr, delay>>
          ELSE /\ lastErr' = err
               /\ IF IsLastAttempt(attempt, retryConfig.MaxRetries)
                     \/ ~LoopContinues(attempt + 1, retryConfig.MaxRetries)
                  THEN /\ retryPc' = "done"
                       /\ retryResult' = Exhausted(retryConfig.MaxRetries + 1, err)
                       /\ recorded' = IF retryFn = "WithRetryAndMetrics"
                                      THEN Append(recorded, FALSE) ELSE recorded
                       /\ UNCHANGED <<attempt, delay>>
                  ELSE /\ attempt' = attempt + 1
                       /\ delay' = DelayOf(retryConfig, attempt + 1)
                       /\ retryPc' = "sleep"
                       /\ UNCHANGED <<retryResult, recorded>>
  /\ UNCHANGED <<retryConfig, retryFn, ctxDone, timerFired, cancelledInSleep>>

\* case <-time.After(delay), or time.Sleep(delay) returning
SleepOver ==
  /\ UNCHANGED OthersOfRetry
  /\ retryPc = "sleep"
  /\ timerFired
  /\ retryPc' = "invoke"
  /\ timerFired' = FALSE
  /\ UNCHANGED <<retryConfig, retryFn, attempt, lastErr, delay, ctxDone,
                 retryResult, recorded, outcomes, cancelledInSleep>>

\* case <-ctx.Done() during the backoff wait of the interceptor
SleepCancelled ==
  /\ UNCHANGED OthersOfRetry
  /\ retryPc = "sleep"
  /\ SleepWatchesCtx(retryFn)
  /\ ctxDone
  /\ retryPc' = "done"
  /\ retryResult' = CtxErr
  /\ recorded' = Append(recorded, FALSE)
  /\ timerFired' = FALSE
  /\ UNCHANGED <<retryConfig, retryFn, attempt, lastErr, delay, ctxDone, outcomes,
                 cancelledInSleep>>

RetryNext ==
  \/ CtxCancel
  \/ TimerFires
  \/ SingleCall
  \/ LoopEnter
  \/ Invoke
  \/ SleepOver
  \/ SleepCancelled

(***************************************************************************)
(* ConnectionPool                                                          *)
(* Connections are interchangeable: one is the record of its fields, and   *)
(* where it is (the idle channel, a caller, the hands of a goroutine of    *)
(* the pool) is where that record is stored. A closed connection is gone.  *)
(***************************************************************************)
\* the goroutines that call Get: one beside Put and the health pass, two
\* when Gets race each other
OneGetter == {"g1"}
TwoGetters == {"g1", "g2"}

\* no connection in hand; the nil a closed channel delivers
NoConn == [tstate |-> "None", lastUsed |-> 0, inUse |-> FALSE]

\* NewConnectionPool: the adjusted configuration
AdjustConfig(initialSize, maxSize, minIdle, maxIdle, enableHealthCheck, acquireTimeout) ==
  LET ms == IF maxSize < 1 THEN 1 ELSE maxSize
      is0 == IF initialSize < 0 THEN 0 ELSE initialSize
      mi0 == IF minIdle < 0 THEN 0 ELSE minIdle
  IN [InitialSize |-> IF is0 > ms THEN ms ELSE is0,
      MaxSize |-> ms,
      MinIdle |-> IF mi0 > ms THEN ms ELSE mi0,
      MaxIdle |-> maxIdle,
      EnableHealthCheck |-> enableHealthCheck,
      AcquireTimeout |-> acquireTimeout]

\* createConnection: a connection as the factory returns it
ConnNew(now) == [tstate |-> "Ready", lastUsed |-> now, inUse |-> FALSE]

\* a pool that never finds itself closed
isClosed_Never == FALSE

\* p.isClosed(), once it has p.mu for reading
isClosed == closed

\* a pool that also hands out connections in TransientFailure
isConnectionHealthy_TFPasses(st) == st # "Shutdown"

\* isConnectionHealthy, on the state conn.ClientConn.GetState() returns
isConnectionHealthy(st) == st # "TransientFailure" /\ st # "Shutdown"


\* a connection that was made and is not closed
IsLive(c) == c.tstate \in {"Ready", "TransientFailure"}

\* the live connections among seq[from..]
LiveIn(seq, from) == Cardinality({i \in DOMAIN seq : i >= from /\ IsLive(seq[i])})

\* the connections created by the factory and not yet closed: idle ones,
\* the ones callers hold, the ones in the hands of Get, Put and the health pass
LiveCount ==
  LiveIn(pool, 1) + held
  + Cardinality({g \in DOMAIN getter : IsLive(getter[g].conn)})
  + (IF IsLive(putter.conn) THEN 1 ELSE 0)
  + LiveIn(checker.tempConns, checker.i)

\* evicted: this call of Get has closed an unhealthy idle connection;
\* timerAt: when the timer of the wait fires; since: when this call of Get
\* first started to wait (-1 before that)
GetterIdle == [pc |-> "idle", cur |-> 0, conn |-> NoConn, evicted |-> FALSE,
               timerAt |-> 0, since |-> -1]

\* timer := time.NewTimer(timeout), for a ctx that carries no deadline: each
\* entry of createOrAcquireConnection into its wait arms a new timer
StartWait(gr, now) ==
  [gr EXCEPT !.pc = "wait",
             !.timerAt = now + config.AcquireTimeout,
             !.since = IF gr.since < 0 THEN now ELSE gr.since]
NoRet == [kind |-> "none"]
RetConn(from, examined) == [kind |-> "conn", from |-> from, examined |-> examined]
RetErr(e) == [kind |-> "err", err |-> e]

PutterIdle == [pc |-> "idle", conn |-> NoConn]
\* evictions, failed: the connections this pass has closed and the creations
\* that failed in it (history, kept for the properties only)
CheckerIdle == [pc |-> "idle", idleCount |-> 0, tempConns |-> <<>>, keepCount |-> 0,
                i |-> 1, needed |-> 0, evictions |-> 0, failed |-> 0]

PoolInitWith(cfg, gs) ==
  /\ config = cfg
  /\ pool = [i \in 1..cfg.InitialSize |-> ConnNew(0)]
  /\ poolChanClosed = FALSE
  /\ counter = 0
  /\ closed = FALSE
  /\ muLocked = FALSE
  /\ held = 0
  /\ getter = [g \in gs |-> GetterIdle]
  /\ getRet = [g \in gs |-> NoRet]
  /\ putter = PutterIdle
  /\ putRet = "none"
  /\ checker = CheckerIdle
  /\ closer = "idle"
  /\ onCloseCalls = 0
  /\ panicked = FALSE
  /\ poolNow = 0

PoolIdle == PoolInitWith(AdjustConfig(0, 1, 0, 0, FALSE, 0), OneGetter)

\* the pool as NewConnectionPool returns it: the initial connections are
\* made by createConnection and sent to p.pool; p.counter is not touched.
\* MaxIdle is longer than a run, the health goroutine is started, AcquireTimeout
\* is zero (the timer of a wait fires at once)
PoolInit ==
  \E initialSize \in 0..PoolMaxInitial, maxSize \in 0..PoolMaxSize,
     minIdle \in 0..PoolMaxMinIdle :
       PoolInitWith(AdjustConfig(initialSize, maxSize, minIdle, PoolMaxTime + 1, TRUE, 0),
                    OneGetter)

\* a pool without health goroutine whose callers wait up to AcquireTimeout
PoolWaitInit ==
  \E initialSize \in 0..PoolMaxInitial, maxSize \in 0..PoolMaxSize,
     acquireTimeout \in 0..MaxAcquireTimeout :
       PoolInitWith(AdjustConfig(initialSize, maxSize, 0, PoolMaxTime + 1, FALSE,
                                 acquireTimeout),
                    TwoGetters)

\* an empty pool with room for several connections, no health goroutine
PoolRaceInit ==
  \E maxSize \in 1..PoolRaceMaxSize :
    PoolInitWith(AdjustConfig(0, maxSize, 0, PoolMaxTime + 1, FALSE, 0), TwoGetters)

\* a pool whose idle connections can become too old during a run
PoolSeqInit ==
  \E initialSize \in 0..PoolMaxInitial, maxSize \in 0..PoolMaxSize,
     minIdle \in 0..PoolMaxMinIdle, maxIdle \in 0..(PoolMaxTime - 1) :
       PoolInitWith(AdjustConfig(initialSize, maxSize, minIdle, maxIdle, TRUE, 0),
                    OneGetter)

PoolConst == <<config>>

\* ---- the environment of the pool ----
\* a Get between two of its statements, or in the select of its wait with a
\* case to take
GetterRunnable(g) ==
  \/ getter[g].pc \notin {"idle", "wait"}
  \/ /\ getter[g].pc = "wait"
     /\ (pool # <<>> \/ poolChanClosed \/ poolNow >= getter[g].timerAt)

\* time passes while every Get is blocked or not called and no Put is running
PoolTick ==
  /\ UNCHANGED OthersOfPool
  /\ ~panicked
  /\ poolNow < PoolMaxTime
  /\ \A g \in DOMAIN getter : ~GetterRunnable(g)
  /\ putter.pc = "idle"
  /\ poolNow' = poolNow + 1
  /\ UNCHANGED <<PoolConst, pool, poolChanClosed, counter, closed, muLocked,
                 held, getter, getRet, putter, putRet, checker, closer, onCloseCalls,
                 panicked>>

\* the transport of an idle connection fails, or a caller that kept the
\* grpc.ClientConn of a connection it has put back closes it (a recovery before
\* the pool looks at the connection again is the same as no failure; a failure
\* in the hands of the health pass is the same as one just before the drain)
IdleConnFails ==
  /\ UNCHANGED OthersOfPool
  /\ ~panicked
  /\ \E i \in 1..Len(pool), st \in {"TransientFailure", "Shutdown"} :
       /\ pool[i].tstate = "Ready"
       /\ pool' = [pool EXCEPT ![i].tstate = st]
  /\ UNCHANGED <<PoolConst, poolChanClosed, counter, closed, muLocked,
                 held, getter, getRet, putter, putRet, checker, closer, onCloseCalls,
                 panicked, poolNow>>

\* ---- Get ----
GetFrame == <<PoolConst, poolChanClosed, closed, muLocked, putter, putRet, checker,
              closer, onCloseCalls, panicked, poolNow>>

\* if p.isClosed() { return nil, ErrPoolClosed }
GetBegin(g) ==
  /\ UNCHANGED OthersOfPool
  /\ ~panicked
  /\ getter[g].pc = "idle"
  /\ ~muLocked
  /\ IF isClosed
     THEN /\ getRet' = [getRet EXCEPT ![g] = RetErr("ErrPoolClosed")]
          /\ UNCHANGED getter
     ELSE /\ getter' = [getter EXCEPT ![g].pc = "select"]
          /\ getRet' = [getRet EXCEPT ![g] = NoRet]
  /\ UNCHANGED <<GetFrame, pool, counter, held>>

\* a receive from p.pool that got a connection: examine it, hand it out if healthy
Receive(g) ==
  LET c == Head(pool)
  IN /\ pool' = Tail(pool)
     /\ IF isConnectionHealthy(c.tstate)
        THEN /\ held' = held + 1
             /\ getter' = [getter EXCEPT ![g] = GetterIdle]
             /\ getRet' = [getRet EXCEPT ![g] = RetConn("idle", c.tstate)]
        ELSE /\ getter' = [getter EXCEPT ![g].pc = "evict", ![g].conn = c]
             /\ UNCHANGED <<held, getRet>>
     /\ UNCHANGED counter

\* the first select of Get: a connection, a closed channel, or the default
GetSelect(g) ==
  /\ UNCHANGED OthersOfPool
  /\ ~panicked
  /\ getter[g].pc = "select"
  /\ IF pool # <<>>
     THEN Receive(g)
     ELSE IF poolChanClosed
     THEN /\ getter' = [getter EXCEPT ![g] = GetterIdle]
          /\ getRet' = [getRet EXCEPT ![g] = RetErr("ErrPoolClosed")]
          /\ UNCHANGED <<pool, counter, held>>
     ELSE /\ getter' = [getter EXCEPT ![g].pc = "load"]
          /\ UNCHANGED <<pool, counter, held, getRet>>
  /\ UNCHANGED GetFrame

\* conn.ClientConn.Close(); atomic.AddInt32(&p.counter, -1);
\* return p.createOrAcquireConnection(ctx)
GetEvict(g) ==
  /\ UNCHANGED OthersOfPool
  /\ ~panicked
  /\ getter[g].pc = "evict"
  /\ counter' = counter - 1
  /\ getter' = [getter EXCEPT ![g].pc = "load", ![g].conn = NoConn,
                              ![g].evicted = TRUE]
  /\ UNCHANGED <<GetFrame, pool, held, getRet>>

\* currentCount := atomic.LoadInt32(&p.counter); if currentCount < MaxSize
GetLoad(g) ==
  /\ UNCHANGED OthersOfPool
  /\ ~panicked
  /\ getter[g].pc = "load"
  /\ getter' = [getter EXCEPT ![g] =
                  IF counter < config.MaxSize
                  THEN [@ EXCEPT !.cur = counter, !.pc = "cas"]
                  ELSE StartWait([@ EXCEPT !.cur = counter], poolNow)]
  /\ UNCHANGED <<GetFrame, pool, counter, held, getRet>>

\* atomic.CompareAndSwapInt32(&p.counter, currentCount, currentCount+1);
\* a failed swap falls through to the wait
GetCAS(g) ==
  /\ UNCHANGED OthersOfPool
  /\ ~panicked
  /\ getter[g].pc = "cas"
  /\ IF counter = getter[g].cur
     THEN /\ counter' = counter + 1
          /\ getter' = [getter EXCEPT ![g].pc = "create"]
     ELSE /\ getter' = [getter EXCEPT ![g] = StartWait(@, poolNow)]
          /\ UNCHANGED counter
  /\ UNCHANGED <<GetFrame, pool, held, getRet>>

\* a Get that keeps its slot when the factory fails
Refund_Kept(c) == c

\* if err != nil { atomic.AddInt32(&p.counter, -1); return nil, err }
Refund(c) == c - 1

\* conn, err := p.createConnection(): the factory succeeds or fails
GetCreate(g) ==
  /\ UNCHANGED OthersOfPool
  /\ ~panicked
  /\ getter[g].pc = "create"
  /\ \E ok \in BOOLEAN :
       IF ok
       THEN /\ held' = held + 1
            /\ getRet' = [getRet EXCEPT ![g] = RetConn("new", "Ready")]
            /\ UNCHANGED counter
       ELSE /\ counter' = Refund(counter)
            /\ getRet' = [getRet EXCEPT ![g] = RetErr("factory")]
            /\ UNCHANGED held
  /\ getter' = [getter EXCEPT ![g] = GetterIdle]
  /\ UNCHANGED <<GetFrame, pool>>

\* the select of createOrAcquireConnection: case conn, ok := <-p.pool
GetWaitReceive(g) ==
  /\ UNCHANGED OthersOfPool
  /\ ~panicked
  /\ getter[g].pc = "wait"
  /\ IF pool # <<>>
     THEN Receive(g)
     ELSE /\ poolChanClosed
          /\ getter' = [getter EXCEPT ![g] = GetterIdle]
          /\ getRet' = [getRet EXCEPT ![g] = RetErr("ErrPoolClosed")]
          /\ UNCHANGED <<pool, counter, held>>
  /\ UNCHANGED GetFrame

\* case <-timer.C, once the timer has fired; case <-ctx.Done(), at whatever
\* moment the caller cancels ctx
GetWaitGiveUp(g) ==
  /\ UNCHANGED OthersOfPool
  /\ ~panicked
  /\ getter[g].pc = "wait"
  /\ \E e \in {"ErrConnectionTimeout", "ctx.Err"} :
       /\ e = "ErrConnectionTimeout" => poolNow >= getter[g].timerAt
       /\ getRet' = [getRet EXCEPT ![g] = RetErr(e)]
  /\ getter' = [getter EXCEPT ![g] = GetterIdle]
  /\ UNCHANGED <<GetFrame, pool, counter, held>>

\* ---- Put ----
PutFrame == <<PoolConst, poolChanClosed, closed, muLocked, getter, getRet, checker,
              closer, onCloseCalls, poolNow>>

\* a connection that keeps the time of its last use
Released_NotStamped(st, now) == [tstate |-> st, lastUsed |-> 0, inUse |-> FALSE]

\* conn.inUse = false; conn.lastUsed = time.Now()
Released(st, now) == [tstate |-> st, lastUsed |-> now, inUse |-> FALSE]

\* Put of nil or of a connection of another pool: rejected before anything
\* is touched
PutForeign ==
  /\ UNCHANGED OthersOfPool
  /\ ~panicked
  /\ putter.pc = "idle"
  /\ putRet' = "ErrNotOwned"
  /\ UNCHANGED <<PutFrame, pool, counter, held, putter, panicked>>

\* Put up to p.isClosed(): a closed pool closes the connection at once. The
\* caller's connection comes with the transport state the test of Put will find
PutBegin ==
  /\ UNCHANGED OthersOfPool
  /\ ~panicked
  /\ putter.pc = "idle"
  /\ ~muLocked
  /\ \E st \in {"Ready", "TransientFailure"} :
       /\ held > 0
       /\ held' = held - 1
       /\ IF isClosed
          THEN /\ counter' = counter - 1
               /\ putRet' = "nil"
               /\ UNCHANGED putter
          ELSE /\ putter' = [pc |-> "send", conn |-> Released(st, poolNow)]
               /\ UNCHANGED <<counter, putRet>>
  /\ UNCHANGED <<PutFrame, pool, panicked>>

\* the health test of Put and its select: send to p.pool, or close when full
PutFinish ==
  /\ UNCHANGED OthersOfPool
  /\ ~panicked
  /\ putter.pc = "send"
  /\ LET c == putter.conn
     IN IF ~isConnectionHealthy(c.tstate)
        THEN /\ counter' = counter - 1
             /\ putter' = PutterIdle
             /\ UNCHANGED <<pool, panicked>>
        ELSE IF poolChanClosed
        THEN /\ panicked' = TRUE
             /\ UNCHANGED <<pool, counter, putter>>
        ELSE IF Len(pool) < config.MaxSize
        THEN /\ pool' = Append(pool, c)
             /\ putter' = PutterIdle
             /\ UNCHANGED <<counter, panicked>>
        ELSE /\ counter' = counter - 1
             /\ putter' = PutterIdle
             /\ UNCHANGED <<pool, panicked>>
  /\ putRet' = IF isConnectionHealthy(putter.conn.tstate) /\ poolChanClosed
               THEN putRet ELSE "nil"
  /\ UNCHANGED <<PutFrame, held>>

\* ---- the periodic health pass ----
HealthFrame == <<PoolConst, poolChanClosed, closed, muLocked, held, getter, getRet,
                 putter, putRet, closer, onCloseCalls, poolNow>>

\* <-ticker.C; if p.isClosed() { return }
HealthTick ==
  /\ UNCHANGED OthersOfPool
  /\ ~panicked
  /\ config.EnableHealthCheck
  /\ checker.pc = "idle"
  /\ ~muLocked
  /\ checker' = [CheckerIdle EXCEPT !.pc = IF isClosed THEN "exited" ELSE "sample"]
  /\ UNCHANGED <<HealthFrame, pool, counter, panicked>>

\* idleCount := len(p.pool)
HealthSample ==
  /\ UNCHANGED OthersOfPool
  /\ ~panicked
  /\ checker.pc = "sample"
  /\ checker' = [checker EXCEPT !.pc = "drain", !.idleCount = Len(pool)]
  /\ UNCHANGED <<HealthFrame, pool, counter, panicked>>

\* for drainCount < idleCount { select { case conn := <-p.pool: ...; default: break } }
\* the break leaves the select only: on an empty open channel the loop goes round
\* again; a closed channel delivers nil
HealthDrain ==
  /\ UNCHANGED OthersOfPool
  /\ ~panicked
  /\ checker.pc = "drain"
  /\ IF Len(checker.tempConns) >= checker.idleCount
     THEN /\ checker' = [checker EXCEPT !.pc = "check", !.i = 1]
          /\ UNCHANGED pool
     ELSE IF pool # <<>>
     THEN /\ checker' = [checker EXCEPT !.tempConns = Append(@, Head(pool))]
          /\ pool' = Tail(pool)
     ELSE IF poolChanClosed
     THEN /\ checker' = [checker EXCEPT !.tempConns = Append(@, NoConn)]
          /\ UNCHANGED pool
     ELSE UNCHANGED <<checker, pool>>
  /\ UNCHANGED <<HealthFrame, counter, panicked>>

\* a pass that finds no connection idle for too long
IdleTooLong_Never(lastUsed, now, maxIdle) == FALSE

\* conn.lastUsed.Before(idleTimeout), idleTimeout = now - MaxIdle
IdleTooLong(lastUsed, now, maxIdle) == lastUsed < now - maxIdle

\* one round of the loop over tempConns
HealthCheckConn ==
  /\ UNCHANGED OthersOfPool
  /\ ~panicked
  /\ checker.pc = "check"
  /\ checker.i <= Len(checker.tempConns)
  /\ LET c == checker.tempConns[checker.i]
     IN IF c = NoConn
        THEN /\ panicked' = TRUE
             /\ UNCHANGED <<checker, pool, counter>>
        ELSE IF \/ IdleTooLong(c.lastUsed, poolNow, config.MaxIdle)
                \/ ~isConnectionHealthy(c.tstate)
                \/ ~(checker.keepCount < config.MaxSize)
        THEN /\ counter' = counter - 1
             /\ checker' = [checker EXCEPT !.i = @ + 1, !.evictions = @ + 1]
             /\ UNCHANGED <<pool, panicked>>
        ELSE IF poolChanClosed
        THEN /\ panicked' = TRUE
             /\ UNCHANGED <<checker, pool, counter>>
        ELSE IF Len(pool) < config.MaxSize
        THEN /\ pool' = Append(pool, c)
             /\ checker' = [checker EXCEPT !.i = @ + 1, !.keepCount = @ + 1]
             /\ UNCHANGED <<counter, panicked>>
        ELSE /\ counter' = counter - 1
             /\ checker' = [checker EXCEPT !.i = @ + 1, !.evictions = @ + 1]
             /\ UNCHANGED <<pool, panicked>>
  /\ UNCHANGED HealthFrame

\* after the loop: if keepCount < minIdle { needed := minIdle - keepCount; ... }
HealthChecked ==
  /\ UNCHANGED OthersOfPool
  /\ ~panicked
  /\ checker.pc = "check"
  /\ checker.i > Len(checker.tempConns)
  /\ checker' = IF checker.keepCount < config.MinIdle
                THEN [CheckerIdle EXCEPT !.pc = "topLoad", !.i = 0,
                                         !.needed = config.MinIdle - checker.keepCount,
                                         !.evictions = checker.evictions]
                ELSE CheckerIdle
  /\ UNCHANGED <<HealthFrame, pool, counter, panicked>>

\* for i := 0; i < needed; i++ { if atomic.LoadInt32(&p.counter) >= MaxSize { break }
HealthTopLoad ==
  /\ UNCHANGED OthersOfPool
  /\ ~panicked
  /\ checker.pc = "topLoad"
  /\ checker' = IF checker.i < checker.needed /\ ~(counter >= config.MaxSize)
                THEN [checker EXCEPT !.pc = "topAdd"]
                ELSE CheckerIdle
  /\ UNCHANGED <<HealthFrame, pool, counter, panicked>>

\* atomic.AddInt32(&p.counter, 1)
HealthTopAdd ==
  /\ UNCHANGED OthersOfPool
  /\ ~panicked
  /\ checker.pc = "topAdd"
  /\ counter' = counter + 1
  /\ checker' = [checker EXCEPT !.pc = "topCreate"]
  /\ UNCHANGED <<HealthFrame, pool, panicked>>

\* conn, err := p.createConnection() and the select that sends it to p.pool
HealthTopCreate ==
  /\ UNCHANGED OthersOfPool
  /\ ~panicked
  /\ checker.pc = "topCreate"
  /\ \E ok \in BOOLEAN :
       IF ~ok
       THEN /\ counter' = counter - 1
            /\ checker' = [checker EXCEPT !.pc = "topLoad", !.i = @ + 1,
                                          !.failed = @ + 1]
            /\ UNCHANGED <<pool, panicked>>
       ELSE IF poolChanClosed
       THEN /\ panicked' = TRUE
            /\ UNCHANGED <<checker, pool, counter>>
       ELSE IF Len(pool) < config.MaxSize
       THEN /\ pool' = Append(pool, ConnNew(poolNow))
            /\ checker' = [checker EXCEPT !.pc = "topLoad", !.i = @ + 1]
            /\ UNCHANGED <<counter, panicked>>
       ELSE /\ counter' = counter - 1
            /\ checker' = [checker EXCEPT !.pc = "topLoad", !.i = @ + 1]
            /\ UNCHANGED <<pool, panicked>>
  /\ UNCHANGED HealthFrame

\* ---- Close ----
CloseFrame == <<PoolConst, held, getter, getRet, putter, putRet, checker, panicked,
                poolNow>>

\* a Close that does not look whether the pool is closed already
AlreadyClosed_Never(c) == FALSE

\* Close: if p.closed { return }
AlreadyClosed(c) == c

\* p.mu.Lock(); if p.closed { return }; p.closed = true; close(p.pool)
CloseBegin ==
  /\ UNCHANGED OthersOfPool
  /\ ~panicked
  /\ closer = "idle"
  /\ ~muLocked
  /\ IF AlreadyClosed(closed)
     THEN UNCHANGED <<closed, poolChanClosed, muLocked, closer>>
     ELSE /\ closed' = TRUE
          /\ poolChanClosed' = TRUE
          /\ muLocked' = TRUE
          /\ closer' = "drain"
  /\ UNCHANGED <<CloseFrame, pool, counter, onCloseCalls>>

\* for conn := range p.pool { close, counter-1 }; then the callbacks; unlock
CloseDrain ==
  /\ UNCHANGED OthersOfPool
  /\ ~panicked
  /\ closer = "drain"
  /\ IF pool # <<>>
     THEN /\ pool' = Tail(pool)
          /\ counter' = counter - 1
          /\ UNCHANGED <<closer, muLocked, onCloseCalls>>
     ELSE /\ onCloseCalls' = onCloseCalls + 1
          /\ muLocked' = FALSE
          /\ closer' = "idle"
          /\ UNCHANGED <<pool, counter>>
  /\ UNCHANGED <<CloseFrame, closed, poolChanClosed>>

\* Get, Put and the health pass running against each other
PoolNext ==
  \/ IdleConnFails
  \/ \E g \in DOMAIN getter :
       \/ GetBegin(g)
       \/ GetSelect(g)
       \/ GetEvict(g)
       \/ GetLoad(g)
       \/ GetCAS(g)
       \/ GetCreate(g)
       \/ GetWaitReceive(g)
       \/ GetWaitGiveUp(g)
  \/ PutBegin
  \/ PutFinish
  \/ HealthTick
  \/ HealthSample
  \/ HealthDrain
  \/ HealthCheckConn
  \/ HealthChecked
  \/ HealthTopLoad
  \/ HealthTopAdd
  \/ HealthTopCreate

\* two callers of Get and Put racing for the slots of the pool
PoolRaceNext ==
  \/ IdleConnFails
  \/ \E g \in DOMAIN getter :
       \/ GetBegin(g)
       \/ GetSelect(g)
       \/ GetEvict(g)
       \/ GetLoad(g)
       \/ GetCAS(g)
       \/ GetCreate(g)
       \/ GetWaitReceive(g)
       \/ GetWaitGiveUp(g)
  \/ PutBegin
  \/ PutFinish

\* the health pass on its own: Get, Put, the clock and the transport move
\* between two passes only, and a pass starts when no Get or Put is running
PoolSeqNext ==
  \/ /\ checker.pc = "idle"
     /\ \/ PoolTick
        \/ IdleConnFails
        \/ \E g \in DOMAIN getter :
             \/ GetBegin(g)
             \/ GetSelect(g)
             \/ GetEvict(g)
             \/ GetLoad(g)
             \/ GetCAS(g)
             \/ GetCreate(g)
             \/ GetWaitReceive(g)
             \/ GetWaitGiveUp(g)
        \/ PutBegin
        \/ PutFinish
  \/ /\ \A g \in DOMAIN getter : getter[g].pc = "idle"
     /\ putter.pc = "idle"
     /\ HealthTick
  \/ HealthSample
  \/ HealthDrain
  \/ HealthCheckConn
  \/ HealthChecked
  \/ HealthTopLoad
  \/ HealthTopAdd
  \/ HealthTopCreate

\* Get, Put and the health pass with a Close among them
PoolAllNext ==
  \/ PoolNext
  \/ CloseBegin
  \/ CloseDrain

\* Get and Put of two callers while time passes, no health pass
PoolWaitNext ==
  \/ PoolTick
  \/ IdleConnFails
  \/ \E g \in DOMAIN getter :
       \/ GetBegin(g)
       \/ GetSelect(g)
       \/ GetEvict(g)
       \/ GetLoad(g)
       \/ GetCAS(g)
       \/ GetCreate(g)
       \/ GetWaitReceive(g)
       \/ GetWaitGiveUp(g)
  \/ PutBegin
  \/ PutFinish

\* Get and Put while time passes, with Puts of connections of other pools
PoolPutNext ==
  \/ PoolWaitNext
  \/ PutForeign

\* Get and Put with a Close among them, between two ticks of the health pass
PoolCloseNext ==
  \/ IdleConnFails
  \/ \E g \in DOMAIN getter :
       \/ GetBegin(g)
       \/ GetSelect(g)
       \/ GetEvict(g)
       \/ GetLoad(g)
       \/ GetCAS(g)
       \/ GetCreate(g)
       \/ GetWaitReceive(g)
       \/ GetWaitGiveUp(g)
  \/ PutBegin
  \/ PutFinish
  \/ CloseBegin
  \/ CloseDrain

(***************************************************************************)
(* conn.Manager                                                            *)
(***************************************************************************)
\* the goroutines that call into the manager: the application (NewManager,
\* then Reconnect) and the loop of the HealthChecker
MgrCallers == {"app", "hc"}
Handles == 1..MaxHandles

\* m.conn == nil
NoHandle == 0

\* connectivity.State as grpc moves it without a call of Close: a handle
\* leaves Idle to connect, a connection attempt ends Ready or in
\* TransientFailure or falls back to Idle, a Ready handle loses its
\* transport, a failed handle retries after the backoff
GrpcNext(st) ==
  CASE st = "Idle" -> {"Connecting"}
    [] st = "Connecting" -> {"Ready", "TransientFailure", "Idle"}
    [] st = "Ready" -> {"Idle", "TransientFailure"}
    [] st = "TransientFailure" -> {"Connecting"}
    [] OTHER -> {}

\* a connect loop that also takes an idle handle for a connected one
IsReady_OrIdle(st) == st \in {"Ready", "Idle"}

\* if state == connectivity.Ready { break }
IsReady(st) == st = "Ready"

\* a connect loop that gives up on no state
IsFailed_Never(st) == FALSE

\* if currentState == connectivity.TransientFailure || currentState == connectivity.Shutdown
IsFailed(st) == st \in {"TransientFailure", "Shutdown"}

\* a health check that also reconnects a manager whose handle is idle
NeedsReconnect_AlsoIdle(st) == st \in {"TransientFailure", "Shutdown", "Idle"}

\* checkHealth: if state == connectivity.TransientFailure || state == connectivity.Shutdown
NeedsReconnect(st) == st \in {"TransientFailure", "Shutdown"}

\* the handle grpc.NewClient returns next
NextHandle ==
  IF \E h \in Handles : handles[h] = "None"
  THEN CHOOSE h \in Handles : handles[h] = "None" /\ \A k \in 1..(h - 1) : handles[k] # "None"
  ELSE NoHandle

\* a GetState that reports a closed handle as idle
MgrGetState_ClosedIsIdle ==
  IF mgrConn = NoHandle THEN "Shutdown"
  ELSE IF handles[mgrConn] = "Shutdown" THEN "Idle" ELSE handles[mgrConn]

\* Manager.GetState
MgrGetState == IF mgrConn = NoHandle THEN "Shutdown" ELSE handles[mgrConn]

CallerIdle == [pc |-> "idle", op |-> "none", conn |-> NoHandle, seen |-> "None"]

\* the goroutine of the application that asks the manager for its handle
GetConnCaller == "rd"

\* a Reconnect is between its m.conn.Close() and the m.conn = conn of connect
MidSwap ==
  \E c \in MgrCallers :
    /\ caller[c].op = "Reconnect"
    /\ caller[c].pc \in {"lock", "loop", "wait", "recheck", "install"}
MgrNoRet == [kind |-> "none"]
MgrOk(op, h) == [kind |-> "ok", op |-> op, conn |-> h]
MgrErr(op, h) == [kind |-> "err", op |-> op, conn |-> h]

\* where a goroutine is after its call returned: a failed NewManager
\* returns no manager, and nothing more can be called
AfterReturn(op, ok) ==
  IF op = "NewManager" /\ ~ok THEN [CallerIdle EXCEPT !.pc = "nomanager"] ELSE CallerIdle

\* NewManager up to its call of m.connect(ctx)
MgrInitWith(hc) ==
  /\ handles = [h \in Handles |-> "None"]
  /\ mgrConn = NoHandle
  /\ connectionMutex = "free"
  /\ healthChecker = "nil"
  /\ withHealthCheck = hc
  /\ mgrBuilt = FALSE
  /\ caller = [c \in MgrCallers |->
                 IF c = "app" THEN [CallerIdle EXCEPT !.pc = "lock", !.op = "NewManager"]
                 ELSE CallerIdle]
  /\ mgrRet = [c \in MgrCallers \cup {GetConnCaller} |-> MgrNoRet]
  /\ observedReady = {}

MgrIdle == MgrInitWith(FALSE)
MgrInit == \E hc \in BOOLEAN : MgrInitWith(hc)

MgrConst == <<withHealthCheck>>

\* ---- the transport ----
HandleChanges ==
  /\ UNCHANGED OthersOfMgr
  /\ \E h \in Handles :
       \E st \in GrpcNext(handles[h]) :
         handles' = [handles EXCEPT ![h] = st]
  /\ UNCHANGED <<MgrConst, mgrConn, connectionMutex, healthChecker, mgrBuilt,
                 caller, mgrRet, observedReady>>

\* ---- connect ----
\* m.connectionMutex.Lock(); grpc.NewClient(...); conn.Connect()
ConnectDial(c) ==
  /\ UNCHANGED OthersOfMgr
  /\ caller[c].pc = "lock"
  /\ connectionMutex = "free"
  /\ \E ok \in BOOLEAN :
       IF ok
       THEN /\ NextHandle # NoHandle
            /\ handles' = [handles EXCEPT ![NextHandle] = "Idle"]
            /\ connectionMutex' = c
            /\ caller' = [caller EXCEPT ![c].pc = "loop", ![c].conn = NextHandle]
            /\ UNCHANGED mgrRet
       ELSE /\ mgrRet' = [mgrRet EXCEPT ![c] = MgrErr(caller[c].op, NoHandle)]
            /\ caller' = [caller EXCEPT ![c] = AfterReturn(caller[c].op, FALSE)]
            /\ UNCHANGED <<handles, connectionMutex>>
  /\ UNCHANGED <<MgrConst, mgrConn, healthChecker, mgrBuilt, observedReady>>

\* state := conn.GetState(); if state == connectivity.Ready { break }
ConnectGetState(c) ==
  /\ UNCHANGED OthersOfMgr
  /\ caller[c].pc = "loop"
  /\ LET st == handles[caller[c].conn]
     IN /\ caller' = [caller EXCEPT ![c].pc = IF IsReady(st) THEN "install" ELSE "wait",
                                    ![c].seen = st]
        /\ observedReady' = IF st = "Ready" THEN observedReady \cup {caller[c].conn}
                            ELSE observedReady
  /\ UNCHANGED <<MgrConst, handles, mgrConn, connectionMutex, healthChecker,
                 mgrBuilt, mgrRet>>

\* conn.WaitForStateChange(ctx, state) returns true: the state is another one
ConnectStateChanged(c) ==
  /\ UNCHANGED OthersOfMgr
  /\ caller[c].pc = "wait"
  /\ handles[caller[c].conn] # caller[c].seen
  /\ caller' = [caller EXCEPT ![c].pc = "recheck"]
  /\ UNCHANGED <<MgrConst, handles, mgrConn, connectionMutex, healthChecker,
                 mgrBuilt, mgrRet, observedReady>>

\* conn.Close() and the error return of connect, with the deferred Unlock
ConnectFails(c) ==
  /\ handles' = [handles EXCEPT ![caller[c].conn] = "Shutdown"]
  /\ connectionMutex' = "free"
  /\ mgrRet' = [mgrRet EXCEPT ![c] = MgrErr(caller[c].op, caller[c].conn)]
  /\ caller' = [caller EXCEPT ![c] = AfterReturn(caller[c].op, FALSE)]
  /\ UNCHANGED <<MgrConst, mgrConn, healthChecker, mgrBuilt, observedReady>>

\* conn.WaitForStateChange(ctx, state) returns false: ctx expired or cancelled
ConnectWaitExpired(c) ==
  /\ UNCHANGED OthersOfMgr
  /\ caller[c].pc = "wait"
  /\ ConnectFails(c)

\* currentState := conn.GetState(); TransientFailure and Shutdown end connect
ConnectRecheck(c) ==
  /\ UNCHANGED OthersOfMgr
  /\ caller[c].pc = "recheck"
  /\ IF IsFailed(handles[caller[c].conn])
     THEN ConnectFails(c)
     ELSE /\ caller' = [caller EXCEPT ![c].pc = "loop"]
          /\ UNCHANGED <<MgrConst, handles, mgrConn, connectionMutex, healthChecker,
                         mgrBuilt, mgrRet, observedReady>>

\* m.conn = conn; return nil, with the deferred Unlock; NewManager then
\* applies its options and returns the manager
ConnectInstall(c) ==
  /\ UNCHANGED OthersOfMgr
  /\ caller[c].pc = "install"
  /\ mgrConn' = caller[c].conn
  /\ connectionMutex' = "free"
  /\ mgrRet' = [mgrRet EXCEPT ![c] = MgrOk(caller[c].op, caller[c].conn)]
  /\ caller' = [caller EXCEPT ![c] = AfterReturn(caller[c].op, TRUE)]
  /\ IF caller[c].op = "NewManager"
     THEN /\ mgrBuilt' = TRUE
          /\ healthChecker' = IF withHealthCheck THEN "running" ELSE "nil"
     ELSE UNCHANGED <<mgrBuilt, healthChecker>>
  /\ UNCHANGED <<MgrConst, handles, observedReady>>

\* ---- Reconnect ----
\* the application calls Reconnect
Reconnect ==
  /\ UNCHANGED OthersOfMgr
  /\ mgrBuilt
  /\ caller["app"].pc = "idle"
  /\ caller' = [caller EXCEPT !["app"] = [CallerIdle EXCEPT !.pc = "closeOld",
                                                            !.op = "Reconnect"]]
  /\ UNCHANGED <<MgrConst, handles, mgrConn, connectionMutex, healthChecker,
                 mgrBuilt, mgrRet, observedReady>>

\* HealthChecker.checkHealth at a tick: reconnect when the manager's state is
\* TransientFailure or Shutdown
checkHealth ==
  /\ UNCHANGED OthersOfMgr
  /\ healthChecker = "running"
  /\ caller["hc"].pc = "idle"
  /\ IF NeedsReconnect(MgrGetState)
     THEN caller' = [caller EXCEPT !["hc"] = [CallerIdle EXCEPT !.pc = "closeOld",
                                                                !.op = "Reconnect"]]
     ELSE UNCHANGED caller
  /\ UNCHANGED <<MgrConst, handles, mgrConn, connectionMutex, healthChecker,
                 mgrBuilt, mgrRet, observedReady>>

\* if m.conn != nil { m.conn.Close() }, before connect takes the mutex
ReconnectCloseOld(c) ==
  /\ UNCHANGED OthersOfMgr
  /\ caller[c].pc = "closeOld"
  /\ handles' = IF mgrConn # NoHandle THEN [handles EXCEPT ![mgrConn] = "Shutdown"]
                ELSE handles
  /\ caller' = [caller EXCEPT ![c].pc = "lock"]
  /\ UNCHANGED <<MgrConst, mgrConn, connectionMutex, healthChecker, mgrBuilt,
                 mgrRet, observedReady>>

\* ---- GetConn ----
\* return m.conn, with no lock taken; the result keeps the state the handle
\* is in at the return and whether a Reconnect was replacing it
GetConn ==
  /\ UNCHANGED OthersOfMgr
  /\ mgrBuilt
  /\ mgrRet' = [mgrRet EXCEPT ![GetConnCaller] =
                  [kind |-> "conn", op |-> "GetConn", conn |-> mgrConn,
                   closed |-> MgrGetState = "Shutdown", midSwap |-> MidSwap]]
  /\ UNCHANGED <<MgrConst, handles, mgrConn, connectionMutex, healthChecker,
                 mgrBuilt, caller, observedReady>>

MgrNext ==
  \/ HandleChanges
  \/ GetConn
  \/ Reconnect
  \/ checkHealth
  \/ \E c \in MgrCallers :
       \/ ConnectDial(c)
       \/ ConnectGetState(c)
       \/ ConnectStateChanged(c)
       \/ ConnectWaitExpired(c)
       \/ ConnectRecheck(c)
       \/ ConnectInstall(c)
       \/ ReconnectCloseOld(c)

\* ---- Close ----
\* the application calls Close: m.stopHealthCheck() stops the checker and
\* forgets it; a Reconnect the checker is in goes on
ManagerClose ==
  /\ UNCHANGED OthersOfMgr
  /\ mgrBuilt
  /\ caller["app"].pc = "idle"
  /\ healthChecker' = "nil"
  /\ caller' = [caller EXCEPT !["app"] = [CallerIdle EXCEPT !.pc = "closeLock",
                                                            !.op = "Close"]]
  /\ UNCHANGED <<MgrConst, handles, mgrConn, connectionMutex, mgrBuilt, mgrRet,
                 observedReady>>

\* m.connectionMutex.Lock(); if m.conn != nil { err := m.conn.Close();
\* m.conn = nil; return err }; return nil. The Close of a handle that is
\* closed already returns an error
ManagerCloseLocked ==
  /\ UNCHANGED OthersOfMgr
  /\ caller["app"].pc = "closeLock"
  /\ connectionMutex = "free"
  /\ IF mgrConn # NoHandle
     THEN /\ handles' = [handles EXCEPT ![mgrConn] = "Shutdown"]
          /\ mgrConn' = NoHandle
          /\ mgrRet' = [mgrRet EXCEPT !["app"] =
                          IF handles[mgrConn] = "Shutdown"
                          THEN MgrErr("Close", mgrConn)
                          ELSE MgrOk("Close", mgrConn)]
     ELSE /\ mgrRet' = [mgrRet EXCEPT !["app"] = MgrOk("Close", NoHandle)]
          /\ UNCHANGED <<handles, mgrConn>>
  /\ caller' = [caller EXCEPT !["app"] = CallerIdle]
  /\ UNCHANGED <<MgrConst, connectionMutex, healthChecker, mgrBuilt, observedReady>>

\* the application builds the manager and closes it, once or more, while
\* the health checker runs
MgrCloseNext ==
  \/ HandleChanges
  \/ checkHealth
  \/ ManagerClose
  \/ ManagerCloseLocked
  \/ \E c \in MgrCallers :
       \/ ConnectDial(c)
       \/ ConnectGetState(c)
       \/ ConnectStateChanged(c)
       \/ ConnectWaitExpired(c)
       \/ ConnectRecheck(c)
       \/ ConnectInstall(c)
       \/ ReconnectCloseOld(c)

\* the manager is built with the health check on and left to its checker
MgrHCNext ==
  \/ HandleChanges
  \/ checkHealth
  \/ \E c \in MgrCallers :
       \/ ConnectDial(c)
       \/ ConnectGetState(c)
       \/ ConnectStateChanged(c)
       \/ ConnectWaitExpired(c)
       \/ ConnectRecheck(c)
       \/ ConnectInstall(c)
       \/ ReconnectCloseOld(c)

(***************************************************************************)
(* conn.HealthChecker (client/conn/health.go)                              *)
(***************************************************************************)
\* NewHealthChecker: stopChan is made here, once
HCInit ==
  /\ isRunning = FALSE
  /\ stopChan = "open"
  /\ runLoops = 0
  /\ hcPanicked = FALSE
  /\ hcCalls = <<>>
  /\ lastChange = "none"
  /\ sampled = FALSE

HCIdle == HCInit

\* Start, under h.mutex: if h.isRunning { return }; h.isRunning = true; go h.run()
Start ==
  /\ UNCHANGED OthersOfHC
  /\ ~hcPanicked
  /\ Len(hcCalls) < MaxHCCalls
  /\ hcCalls' = Append(hcCalls, "Start")
  /\ IF isRunning
     THEN UNCHANGED <<isRunning, runLoops, lastChange, sampled>>
     ELSE /\ isRunning' = TRUE
          /\ runLoops' = runLoops + 1
          /\ lastChange' = "Start"
          /\ sampled' = FALSE
  /\ UNCHANGED <<stopChan, hcPanicked>>

\* a Stop that clears isRunning and leaves the channel open
Stop_LeavesChanOpen ==
  /\ UNCHANGED OthersOfHC
  /\ ~hcPanicked
  /\ Len(hcCalls) < MaxHCCalls
  /\ hcCalls' = Append(hcCalls, "Stop")
  /\ IF ~isRunning
     THEN UNCHANGED <<isRunning, lastChange>>
     ELSE /\ isRunning' = FALSE
          /\ lastChange' = "Stop"
  /\ UNCHANGED <<stopChan, hcPanicked, runLoops, sampled>>

\* Stop, under h.mutex: if !h.isRunning { return }; close(h.stopChan);
\* h.isRunning = false. The close of a closed channel panics
Stop ==
  /\ UNCHANGED OthersOfHC
  /\ ~hcPanicked
  /\ Len(hcCalls) < MaxHCCalls
  /\ hcCalls' = Append(hcCalls, "Stop")
  /\ IF ~isRunning
     THEN UNCHANGED <<isRunning, stopChan, hcPanicked, lastChange>>
     ELSE IF stopChan = "closed"
     THEN /\ hcPanicked' = TRUE
          /\ lastChange' = "Stop"
          /\ UNCHANGED <<isRunning, stopChan>>
     ELSE /\ stopChan' = "closed"
          /\ isRunning' = FALSE
          /\ lastChange' = "Stop"
          /\ UNCHANGED hcPanicked
  /\ UNCHANGED <<runLoops, sampled>>

\* run: case <-ticker.C: h.checkHealth()
RunTick ==
  /\ UNCHANGED OthersOfHC
  /\ ~hcPanicked
  /\ runLoops > 0
  /\ sampled' = TRUE
  /\ UNCHANGED <<isRunning, stopChan, runLoops, hcPanicked, hcCalls, lastChange>>

\* run: case <-h.stopChan: return; a closed channel is always ready
RunStopped ==
  /\ UNCHANGED OthersOfHC
  /\ ~hcPanicked
  /\ runLoops > 0
  /\ stopChan = "closed"
  /\ runLoops' = runLoops - 1
  /\ UNCHANGED <<isRunning, stopChan, hcPanicked, hcCalls, lastChange, sampled>>

HCNext ==
  \/ Start
  \/ Stop
  \/ RunTick
  \/ RunStopped

(***************************************************************************)
(* Specifications: one component runs, the others stay as constructed      *)
(***************************************************************************)
InitCB == CBInit /\ RLIdle /\ RetryIdle /\ PoolIdle /\ MgrIdle /\ HCIdle
SpecCB == InitCB /\ [][CBNext]_vars
SpecCBCalls == InitCB /\ [][CBCallsNext]_vars

InitRL == RLInit /\ CBIdle /\ RetryIdle /\ PoolIdle /\ MgrIdle /\ HCIdle
SpecRL == InitRL /\ [][RLNext]_vars
SpecRLFixedRate == InitRL /\ [][RLFixedRateNext]_vars

\* Wait with a timeout to wait for: time goes on, and a goroutine that
\* can run does
InitRLWait ==
  /\ \E rps \in 0..MaxRate, burst \in 0..MaxBurst, wt \in 1..MaxWaitTimeout :
       RLInitWith(rps, burst, wt)
  /\ CBIdle /\ RetryIdle /\ PoolIdle /\ MgrIdle /\ HCIdle
SpecRLWait ==
  /\ InitRLWait
  /\ [][RLNext]_vars
  /\ SF_vars(RLTick)
  /\ WF_vars(WaitPoll)
  /\ WF_vars(WaitDone)

InitRetry == RetryInit /\ CBIdle /\ RLIdle /\ PoolIdle /\ MgrIdle /\ HCIdle
SpecRetry == InitRetry /\ [][RetryNext]_vars

InitPool == PoolInit /\ CBIdle /\ RLIdle /\ RetryIdle /\ MgrIdle /\ HCIdle
SpecPool == InitPool /\ [][PoolNext]_vars

\* the health goroutine is scheduled whenever it has a step that changes
\* something, and its drain loop gets a connection if the idle channel holds
\* one again and again; callers call Get and Put when they like
SpecPoolLive ==
  /\ InitPool
  /\ [][PoolNext]_vars
  /\ WF_vars(HealthSample)
  /\ SF_vars(HealthDrain)
  /\ WF_vars(HealthCheckConn)
  /\ WF_vars(HealthChecked)
  /\ WF_vars(HealthTopLoad)
  /\ WF_vars(HealthTopAdd)
  /\ WF_vars(HealthTopCreate)

SpecPoolClose == InitPool /\ [][PoolCloseNext]_vars

SpecPoolAll == InitPool /\ [][PoolAllNext]_vars

InitPoolSeq == PoolSeqInit /\ CBIdle /\ RLIdle /\ RetryIdle /\ MgrIdle /\ HCIdle
SpecPoolSeq == InitPoolSeq /\ [][PoolSeqNext]_vars

SpecPoolPut == InitPool /\ [][PoolPutNext]_vars

InitPoolRace == PoolRaceInit /\ CBIdle /\ RLIdle /\ RetryIdle /\ MgrIdle /\ HCIdle
SpecPoolRace == InitPoolRace /\ [][PoolRaceNext]_vars

InitPoolWait == PoolWaitInit /\ CBIdle /\ RLIdle /\ RetryIdle /\ MgrIdle /\ HCIdle
SpecPoolWait == InitPoolWait /\ [][PoolWaitNext]_vars

InitMgr == MgrInit /\ CBIdle /\ RLIdle /\ RetryIdle /\ PoolIdle /\ HCIdle
SpecMgr == InitMgr /\ [][MgrNext]_vars

SpecMgrClose == InitMgr /\ [][MgrCloseNext]_vars

\* the ticker of the checker goes on ticking, a goroutine that can run
\* does, and grpc goes on with the connection attempt of a handle; nothing
\* is assumed about a wait running into its timeout
InitMgrHC == MgrInitWith(TRUE) /\ CBIdle /\ RLIdle /\ RetryIdle /\ PoolIdle /\ HCIdle
SpecMgrHC ==
  /\ InitMgrHC
  /\ [][MgrHCNext]_vars
  /\ WF_vars(HandleChanges)
  /\ WF_vars(checkHealth)
  /\ \A c \in MgrCallers :
       /\ WF_vars(ConnectDial(c))
       /\ WF_vars(ConnectGetState(c))
       /\ WF_vars(ConnectStateChanged(c))
       /\ WF_vars(ConnectRecheck(c))
       /\ WF_vars(ConnectInstall(c))
       /\ WF_vars(ReconnectCloseOld(c))

InitHC == HCInit /\ CBIdle /\ RLIdle /\ RetryIdle /\ PoolIdle /\ MgrIdle
SpecHC == InitHC /\ [][HCNext]_vars

\* a loop whose stop channel is ready takes that case of its select after
\* finitely many ticks
SpecHCLive == InitHC /\ [][HCNext]_vars /\ WF_vars(RunStopped)

(***************************************************************************)
(* Properties of the RateLimiter                                           *)
(***************************************************************************)

\* C5: on a freshly built limiter, with no time elapsing, the k-th
\* consecutive Allow() returns true exactly when k <= floor(maxTokens): the
\* first floor(maxTokens) calls succeed and the following ones fail.
C5_BurstIsFloorOfMaxTokens ==
  (fresh /\ freshCalls >= 1) =>
     /\ rlCall.op = "Allow"
     /\ (rlCall.ret <=> freshCalls <= maxTokens \div TokenUnit)

C5_Witness ==
  /\ fresh
  /\ maxTokens = 2 * TokenUnit + 1
  /\ freshCalls = 3
  /\ rlCall = RLCall("Allow", FALSE)

\* C9: whenever the lock is free, 0 <= tokens <= maxTokens, after any calls
\* of Allow, Wait, GetAvailableTokens and SetRate and any passage of time.
C9_TokensWithinBucket == 0 <= tokens /\ tokens <= maxTokens

C9_Witness ==
  /\ rlCall.op = "GetAvailableTokens"
  /\ rlCall.ret = maxTokens
  /\ tokens = maxTokens
  /\ maxTokens > NormalizeBurst(rlConfig.MaxBurst, rlConfig.RequestsPerSecond)
  /\ lastRefillTime > 0

\* what refillTokens leaves in the bucket when the call starts
Refilled == RefillTokens(tokens, maxTokens, refillRate, lastRefillTime, rlNow).tokens

\* C14: with waitTimeout > 0, Wait(ctx) terminates; a nil return has taken
\* exactly one token out of the bucket; every other return is
\* RateLimitExceeded, takes no token, and comes at most one poll after the
\* earliest of the cancellation of ctx, its deadline and waitTimeout.
C14_WaitTerminates ==
  /\ [](waiter.pc = "waiting" =>
          /\ waiter.late <= 1
          /\ rlNow <= waiter.deadline)
  /\ [][ /\ ((WaitBegin \/ WaitPoll) /\ rlCall'.ret = "nil") =>
              tokens' = Refilled - TokenUnit
         /\ ((WaitBegin \/ WaitPoll) /\ rlCall'.ret # "nil") =>
              tokens' = Refilled
         /\ WaitDone =>
              /\ rlCall'.ret = "RateLimitExceeded"
              /\ tokens' = tokens
              /\ waiter.cancelled \/ rlNow >= waiter.deadline
     ]_vars
  /\ (waiter.pc = "waiting") ~> (waiter.pc = "idle")

\* a Wait that gave up because ctx was cancelled before the timeout, with
\* less than one token in the bucket all along
C14_Witness ==
  /\ waitTimeout > 0
  /\ rlCall = RLCall("Wait", "RateLimitExceeded")
  /\ waiter = WaiterIdle
  /\ tokens < TokenUnit
  /\ rlNow = 0

\* C17: every read and every write of a mutable field of a CircuitBreaker or
\* a RateLimiter is made with the lock of the instance held.
C17_FieldsAccessedUnderLock == unlockedAccess = {}

\* what a check made now finds in the bucket
Credit == Min(maxTokens, tokens + (rlNow - lastRefillTime) * refillRate)

\* C36: a refused Allow() and a GetAvailableTokens() leave in the bucket
\* min(maxTokens, tokens + elapsed * refillRate), stamp lastRefillTime with
\* now and change nothing of what a later check finds; each second adds
\* refillRate to it, up to maxTokens; and Allow() admits exactly when it is
\* at least one token, of which it then takes one.
C36_CreditAccruesWithoutLoss ==
  [][ /\ ((Allow /\ ~rlCall'.ret) \/ GetAvailableTokens) =>
           /\ tokens' = Credit
           /\ lastRefillTime' = rlNow
           /\ Credit' = Credit
      /\ RLTick => Credit' = Min(maxTokens, Credit + refillRate)
      /\ Allow => /\ rlCall'.ret <=> (Credit >= TokenUnit)
                  /\ rlCall'.ret => Credit' = Credit - TokenUnit
  ]_vars

\* at half a token a second, an Allow() made one second after the last
\* refill was refused and has left half a token in the bucket
C36_Witness ==
  /\ rlCall = RLCall("Allow", FALSE)
  /\ refillRate = 1
  /\ maxTokens >= TokenUnit
  /\ tokens = 1
  /\ lastRefillTime = rlNow
  /\ rlNow >= 1

\* C37: a SetRate(r) with r > 0 leaves in the bucket what a check made at
\* the time of the call finds at the old rate, stamps lastRefillTime with
\* now, sets refillRate to r and maxTokens to the larger of its old value
\* and r; tokens is at most the new maxTokens.
C37_SetRateSettlesThenSwitches ==
  [][ (SetRate /\ rlCall'.ret > 0) =>
        /\ tokens' = Min(maxTokens, tokens + (rlNow - lastRefillTime) * refillRate)
        /\ lastRefillTime' = rlNow
        /\ refillRate' = rlCall'.ret
        /\ maxTokens' = Max(maxTokens, rlCall'.ret)
        /\ tokens' <= maxTokens'
  ]_vars

\* a SetRate(1.0) on a limiter built with half a token a second and a burst
\* of half a token, called after time has passed: the bucket was settled at
\* the old rate and its capacity raised to one token
C37_Witness ==
  /\ rlCall = RLCall("SetRate", 2)
  /\ rlConfig.RequestsPerSecond = 1
  /\ rlConfig.MaxBurst = 1
  /\ refillRate = 2
  /\ maxTokens = 2
  /\ tokens = 1
  /\ lastRefillTime = rlNow
  /\ rlNow >= 1

\* C35: at a fixed rate, the calls admitted in an interval (Allow()
\* returning true, Wait() returning nil) are at most maxTokens plus
\* refillRate times the length of the interval.
C35_AdmittedWithinBurstPlusRate ==
  window.on =>
    window.admitted * TokenUnit <= maxTokens + refillRate * (rlNow - window.start)

\* an interval that began after time 0 and in which time has passed has
\* admitted as many calls as the bound allows
C35_Witness ==
  /\ window.on
  /\ window.start >= 1
  /\ rlNow > window.start
  /\ window.admitted >= 2
  /\ window.admitted * TokenUnit = maxTokens + refillRate * (rlNow - window.start)

(***************************************************************************)
(* Properties of the retry executors                                       *)
(***************************************************************************)
AllRetryable(seq) == \A i \in 1..Len(seq) : seq[i] # Nil /\ isRetryableError(seq[i])

\* C3: with maxRetries = n >= 1, an operation that fails with a retryable
\* error on every invocation and a context that is not cancelled, the
\* executor ends after exactly n+1 invocations with a RetryExhausted error
\* that wraps the error of the last invocation and reports n+1 attempts.
C3_ExhaustsAfterNPlusOne ==
  (/\ retryPc = "done"
   /\ retryConfig.MaxRetries >= 1
   /\ AllRetryable(outcomes)
   /\ ~ctxDone) =>
     /\ Len(outcomes) = retryConfig.MaxRetries + 1
     /\ retryResult = Exhausted(retryConfig.MaxRetries + 1, outcomes[Len(outcomes)])

C3_Witness ==
  /\ retryPc = "done"
  /\ retryFn = "WithRetryAndMetrics"
  /\ retryConfig.MaxRetries = 3
  /\ Len(outcomes) = 4
  /\ AllRetryable(outcomes)
  /\ outcomes[3] # outcomes[4]
  /\ retryResult = Exhausted(4, outcomes[4])

\* C4: a non-retryable error is returned as it is and ends the loop, at the
\* first attempt or after retryable failures, for every maxRetries; so does
\* the first success: no invocation follows either.
C4_TerminalOutcomeEndsLoop ==
  /\ \A i \in 1..Len(outcomes) - 1 : outcomes[i] # Nil /\ isRetryableError(outcomes[i])
  /\ (Len(outcomes) > 0 /\ ~AllRetryable(outcomes)) =>
        /\ retryPc = "done"
        /\ retryResult = outcomes[Len(outcomes)]

C4_Witness ==
  /\ retryPc = "done"
  /\ retryConfig.MaxRetries = 3
  /\ Len(outcomes) = 2
  /\ outcomes[1] = StatusErr("Unavailable")
  /\ outcomes[2] = StatusErr("NotFound")
  /\ retryResult = StatusErr("NotFound")

C38_NoRetriesInvokesOnce ==
  (retryPc = "done" /\ retryConfig.MaxRetries <= 0) =>
    /\ Len(outcomes) = 1
    /\ attempt = 0
    /\ retryResult = outcomes[1]

(***************************************************************************)
(* Properties of the CircuitBreaker                                        *)
(***************************************************************************)

\* C1: in a half-open episode the IsAllowed() calls that return true, the
\* call that moved Open to HalfOpen included, are never more than
\* halfOpenMaxRequests.
C1_EpisodeAdmitsAtMostMax ==
  state = CircuitHalfOpen => episodeAdmits <= halfOpenMaxRequests

\* C7: with failureThreshold >= 1 a Closed breaker admits every call, and
\* opens exactly at the OnFailure() that completes failureThreshold
\* consecutive failures (OnSuccess resets the count); that call stamps
\* lastFailureTime with now and starts each open-listener once, and
\* IsAllowed() then returns false while the reset timeout has not elapsed.
C7_OpensAtThreshold ==
  [][failureThreshold >= 1 =>
       /\ (IsAllowed /\ state = CircuitClosed => cbCall'.ret = TRUE)
       /\ (OnSuccess /\ state = CircuitClosed =>
             failureCount' = 0 /\ state' = CircuitClosed)
       /\ (OnFailure /\ state = CircuitClosed =>
             /\ (state' = CircuitOpen <=> consecFailures' = failureThreshold)
             /\ state' \in {CircuitOpen, CircuitClosed}
             /\ (state' = CircuitOpen =>
                   /\ lastFailureTime' = cbNow
                   /\ cbCall'.opened = NotifyAll(openStateListeners))
             /\ (state' = CircuitClosed =>
                   cbCall'.opened = NotifyNone(openStateListeners)))
       /\ (state = CircuitClosed /\ state' # CircuitClosed =>
             OnFailure /\ state' = CircuitOpen)
       /\ (IsAllowed /\ state = CircuitOpen
             /\ cbNow <= lastFailureTime + resetTimeout =>
             cbCall'.ret = FALSE /\ state' = CircuitOpen)
  ]_vars

C7_Witness ==
  /\ failureThreshold = 3
  /\ state = CircuitOpen
  /\ cbCall.op = "OnFailure"
  /\ consecFailures = 3
  /\ lastFailureTime = cbNow
  /\ openStateListeners = 1
  /\ cbCall.opened = NotifyAll(1)

\* C8: a HalfOpen breaker is closed by OnSuccess() exactly at the call that
\* brings the successes of the episode to halfOpenMaxRequests, not before;
\* that call resets failureCount and starts each close-listener once, and a
\* Closed breaker admits every call.
C8_ClosesAtMaxSuccesses ==
  [][/\ (OnSuccess /\ state = CircuitHalfOpen =>
           /\ (state' = CircuitClosed <=> episodeSuccesses' = halfOpenMaxRequests)
           /\ state' \in {CircuitClosed, CircuitHalfOpen}
           /\ (state' = CircuitClosed =>
                 /\ failureCount' = 0
                 /\ cbCall'.closed = NotifyAll(closeStateListeners))
           /\ (state' = CircuitHalfOpen =>
                 cbCall'.closed = NotifyNone(closeStateListeners)))
     /\ (state = CircuitHalfOpen /\ state' = CircuitClosed => OnSuccess \/ Reset)
     /\ (IsAllowed /\ state = CircuitClosed => cbCall'.ret = TRUE)
  ]_vars

C8_Witness ==
  /\ halfOpenMaxRequests = 2
  /\ state = CircuitClosed
  /\ cbCall.op = "OnSuccess"
  /\ episodeSuccesses = 2
  /\ failureCount = 0
  /\ closeStateListeners = 1
  /\ cbCall.closed = NotifyAll(1)


\* no listener was started by the last call
NoListenerStarted(call) ==
  /\ \A l \in DOMAIN call.opened : call.opened[l] = 0
  /\ \A l \in DOMAIN call.closed : call.closed[l] = 0

\* C19: while Open, IsAllowed() returns true and moves to HalfOpen with
\* requestCount = 0 and successCount = 0 exactly when
\* now >= lastFailureTime + resetTimeout (the instant of equality included);
\* otherwise it returns false and changes nothing; no other operation and no
\* passage of time moves the breaker from Open to HalfOpen.
C19_OpenAdmitsFromTimeoutOn ==
  [][ /\ (IsAllowed /\ state = CircuitOpen) =>
           IF cbNow >= lastFailureTime + resetTimeout
           THEN /\ cbCall'.ret
                /\ state' = CircuitHalfOpen
                /\ requestCount' = 0
                /\ successCount' = 0
           ELSE /\ ~cbCall'.ret
                /\ UNCHANGED <<state, failureCount, successCount, requestCount,
                               lastFailureTime>>
      /\ (state = CircuitOpen /\ state' = CircuitHalfOpen) => IsAllowed
  ]_vars

\* C20 as claimed: while Open, OnSuccess() and OnFailure() leave state,
\* failureCount, successCount, requestCount and lastFailureTime unchanged and
\* start no listener.
C20_OpenCallsChangeNothing ==
  [][ ((OnSuccess \/ OnFailure) /\ state = CircuitOpen) =>
        /\ UNCHANGED <<state, failureCount, successCount, requestCount,
                       lastFailureTime>>
        /\ NoListenerStarted(cbCall')
  ]_vars

\* C20 as amended: while Open, OnSuccess() changes none of state,
\* failureCount, successCount, requestCount and lastFailureTime; OnFailure()
\* changes none of state, failureCount, successCount and requestCount but
\* sets lastFailureTime to now; neither starts a listener.
C20_OpenCallsOnlyStampFailure ==
  [][ /\ (OnSuccess /\ state = CircuitOpen) =>
           /\ UNCHANGED <<state, failureCount, successCount, requestCount,
                          lastFailureTime>>
           /\ NoListenerStarted(cbCall')
      /\ (OnFailure /\ state = CircuitOpen) =>
           /\ UNCHANGED <<state, failureCount, successCount, requestCount>>
           /\ lastFailureTime' = cbNow
           /\ NoListenerStarted(cbCall')
  ]_vars

\* an OnFailure() on an Open breaker with a listener registered: no listener
\* was started, and the failure time moved to now, after the timeout of the
\* failure that opened the breaker would have run out
C20_Witness ==
  /\ state = CircuitOpen
  /\ cbCall.op = "OnFailure"
  /\ openStateListeners >= 1
  /\ NoListenerStarted(cbCall)
  /\ lastFailureTime = cbNow
  /\ cbNow > 1 + resetTimeout
  /\ failureCount >= 1

\* C32: with every call made by a goroutine that asked IsAllowed() first,
\* a HalfOpen breaker becomes Closed only when halfOpenMaxRequests calls
\* admitted in this episode have reported success, and it leaves HalfOpen
\* only at the report of a call that was admitted in this episode.
C32_OnlyEpisodeCallsDecide ==
  [][ /\ (state = CircuitHalfOpen /\ state' = CircuitClosed) =>
           calls'.reported >= halfOpenMaxRequests
      /\ (state = CircuitHalfOpen /\ state' # CircuitHalfOpen) =>
           \E i \in Callers : calls.tag[i] = "episode" /\ calls'.tag[i] = "none"
  ]_vars

\* C33: an OnFailure() on a HalfOpen breaker leaves it Open with
\* lastFailureTime = now, starts each open listener once and no close
\* listener; and an IsAllowed() on an Open breaker at a time before
\* lastFailureTime + resetTimeout returns false and leaves the breaker Open.
C33_HalfOpenFailureReopens ==
  [][ /\ (OnFailure /\ state = CircuitHalfOpen) =>
           /\ state' = CircuitOpen
           /\ lastFailureTime' = cbNow
           /\ cbCall'.opened = [l \in 1..openStateListeners |-> 1]
           /\ cbCall'.closed = [l \in 1..closeStateListeners |-> 0]
           /\ UNCHANGED <<failureCount, successCount, requestCount>>
      /\ (IsAllowed /\ state = CircuitOpen /\ cbNow < lastFailureTime + resetTimeout) =>
           /\ ~cbCall'.ret
           /\ state' = CircuitOpen
  ]_vars

\* with halfOpenMaxRequests = 2, an OnFailure() has re-opened a HalfOpen
\* breaker in which one probe had succeeded, and has started the open
\* listener
C33_Witness ==
  /\ state = CircuitOpen
  /\ halfOpenMaxRequests = 2
  /\ successCount = 1
  /\ cbCall.op = "OnFailure"
  /\ openStateListeners = 1
  /\ cbCall.opened = NotifyAll(1)
  /\ lastFailureTime = cbNow
  /\ resetTimeout >= 1

\* C34: Reset() leaves the breaker Closed with failureCount, successCount
\* and requestCount 0, starts no open listener, and starts each close
\* listener once if the breaker was Open before the call and none if it was
\* HalfOpen or Closed.
C34_ResetClosesAndNotifiesIfOpen ==
  [][ Reset =>
        /\ state' = CircuitClosed
        /\ failureCount' = 0
        /\ successCount' = 0
        /\ requestCount' = 0
        /\ cbCall'.opened = [l \in 1..openStateListeners |-> 0]
        /\ cbCall'.closed = [l \in 1..closeStateListeners |->
                               IF state = CircuitOpen THEN 1 ELSE 0]
        /\ UNCHANGED <<CBConfig, CBListeners, lastFailureTime>>
  ]_vars

\* a Reset() of an Open breaker with a close listener has started it
C34_Witness ==
  /\ cbCall.op = "Reset"
  /\ state = CircuitClosed
  /\ closeStateListeners = 1
  /\ cbCall.closed = NotifyAll(1)
  /\ failureCount = 0
  /\ lastFailureTime > ZeroTime

(***************************************************************************)
(* ConnectionPool properties                                               *)
(***************************************************************************)
\* C2: whatever the configuration and however Get, Put and the health pass
\* interleave, the connections created by the factory and not yet closed
\* are never more than MaxSize.
C2_LiveWithinMaxSize == LiveCount <= config.MaxSize

\* no Get, Put, health pass or Close is in progress
PoolQuiescent ==
  /\ \A g \in DOMAIN getter : getter[g].pc = "idle"
  /\ putter.pc = "idle"
  /\ checker.pc = "idle"
  /\ closer = "idle"

\* C16: a Get that waits for a connection, with a ctx that carries no
\* deadline, does not block past AcquireTimeout: it is never found in the
\* select of its wait later than AcquireTimeout after it first started to wait.
C16_WaitWithinAcquireTimeout ==
  \A g \in DOMAIN getter :
    getter[g].pc = "wait" => poolNow <= getter[g].since + config.AcquireTimeout

\* C18: in every state with no operation in progress the counter equals the
\* number of connections the pool created and has not closed (the idle ones
\* and the ones callers hold), so it is not negative, not smaller than the
\* number of idle connections, and below MaxSize exactly when fewer than
\* MaxSize connections exist.
C18_CounterMatchesConnections ==
  PoolQuiescent =>
    /\ counter = Len(pool) + held
    /\ counter >= 0
    /\ counter >= Len(pool)
    /\ (counter < config.MaxSize) <=> (Len(pool) + held < config.MaxSize)

UnhealthyStates == {"TransientFailure", "Shutdown"}

\* C6: a connection Get receives from the idle channel and finds in
\* TransientFailure or Shutdown is not handed to the caller: Get keeps it
\* aside, closes it with the counter going down by exactly one, and enters
\* createOrAcquireConnection; what Get returns from the idle channel was
\* found in neither state.
C6_UnhealthyIdleEvicted ==
  [][\A g \in DOMAIN getter :
       /\ ( /\ GetSelect(g) \/ GetWaitReceive(g)
            /\ pool # <<>>
            /\ Head(pool).tstate \in UnhealthyStates )
          => /\ getter'[g].pc = "evict"
             /\ getter'[g].conn = Head(pool)
             /\ getRet'[g] = getRet[g]
             /\ held' = held
             /\ counter' = counter
       /\ ( GetEvict(g) /\ getter[g].conn.tstate \in UnhealthyStates )
          => /\ getter'[g].conn = NoConn
             /\ pool' = pool
             /\ held' = held
             /\ counter' = counter - 1
             /\ getter'[g].pc = "load"
             /\ getRet'[g] = getRet[g]
       /\ ( getRet'[g] # getRet[g] /\ getRet'[g].kind = "conn"
            /\ getRet'[g].from = "idle" )
          => /\ getRet'[g].examined \notin UnhealthyStates
             /\ pool # <<>>
             /\ Head(pool).tstate = getRet'[g].examined
  ]_vars

\* a Get that closed an idle connection in TransientFailure or Shutdown and
\* is now creating a connection of its own
C6_Witness ==
  \E g \in DOMAIN getter :
    /\ getter[g].evicted
    /\ getter[g].pc = "create"
    /\ getRet[g].kind = "none"


\* Close() has returned: the pool is closed and p.mu is free again
CloseReturned == closed /\ ~muLocked

C31_CloseDrainsAndCallsBackOnce ==
  /\ [](CloseReturned => (closed /\ poolChanClosed /\ pool = <<>> /\ onCloseCalls = 1))
  /\ [](~closed => onCloseCalls = 0)
  /\ [][ (CloseDrain /\ pool # <<>>) =>
           /\ pool' = Tail(pool)
           /\ counter' = counter - 1
           /\ LiveCount' = LiveCount - (IF IsLive(Head(pool)) THEN 1 ELSE 0)
           /\ onCloseCalls' = 0
     ]_vars

\* a pool built with one idle connection was closed before any Get or Put:
\* Close() has closed that connection, taken one off the counter and run
\* the callbacks once
C31_Witness ==
  /\ CloseReturned
  /\ config.InitialSize = 1
  /\ getRet["g1"] = NoRet
  /\ putRet = "none"
  /\ pool = <<>>
  /\ counter = -1
  /\ onCloseCalls = 1
  /\ closer = "idle"

\* C39: a Get reserves its slot by raising the counter by one and touches
\* nothing else; when the factory then fails, the Get returns the factory's
\* error, takes the one off the counter again and leaves the idle set and
\* the connections in use alone; if no other goroutine has moved the counter
\* in between, the counter is what this Get read before it reserved, which
\* is below MaxSize.
C39_FailedCreateRefundsSlot ==
  [][ \A g \in DOMAIN getter :
        /\ (GetCAS(g) /\ getter'[g].pc = "create") =>
             /\ counter' = counter + 1
             /\ UNCHANGED <<pool, held>>
        /\ (GetCreate(g) /\ getRet'[g].kind = "err") =>
             /\ getRet'[g] = RetErr("factory")
             /\ getter'[g] = GetterIdle
             /\ counter' = counter - 1
             /\ UNCHANGED <<pool, held>>
             /\ counter = getter[g].cur + 1 =>
                  (counter' = getter[g].cur /\ counter' < config.MaxSize)
  ]_vars

\* with MaxSize 1, one Get has returned the factory's error and the Get of
\* another goroutine has then created a connection in the slot
C39_Witness ==
  /\ config.MaxSize = 1
  /\ getRet["g1"] = RetErr("factory")
  /\ getter["g1"] = GetterIdle
  /\ getRet["g2"] = RetConn("new", "Ready")
  /\ getter["g2"] = GetterIdle
  /\ counter = 1
  /\ held = 1
  /\ pool = <<>>

\* C23: a Get starts to wait on the idle channel only when the counter is at
\* MaxSize: with the counter below MaxSize it reserves a slot and creates a
\* connection, also when another Get races for the slots.
C23_WaitsOnlyAtMaxSize ==
  [][\A g \in DOMAIN getter :
       (getter[g].pc # "wait" /\ getter'[g].pc = "wait") => counter >= config.MaxSize
  ]_vars

\* C28: a health pass that has started comes to its end, whatever Get and
\* Put do in the meantime.
C28_HealthPassTerminates == (checker.pc = "sample") ~> (checker.pc = "idle")

\* C29: on an open pool a Put that has passed its tests always has a step
\* to take, returns nil and does exactly one of: close an unhealthy
\* connection and take one off the counter; append a healthy connection to
\* the idle channel with inUse false and lastUsed set to the time of the Put,
\* counter untouched; close the connection and take one off the counter when
\* the idle channel is full. A Put of a connection of another pool returns an
\* error and changes nothing.
C29_PutOutcomes ==
  /\ [](putter.pc = "send" => ENABLED PutFinish)
  /\ [][ /\ PutFinish =>
             LET c == putter.conn
             IN /\ putter' = PutterIdle
                /\ putRet' = "nil"
                /\ held' = held
                /\ IF c.tstate \in UnhealthyStates
                   THEN pool' = pool /\ counter' = counter - 1
                   ELSE IF Len(pool) < config.MaxSize
                   THEN /\ pool' = Append(pool, [tstate |-> c.tstate,
                                                 lastUsed |-> poolNow,
                                                 inUse |-> FALSE])
                        /\ counter' = counter
                   ELSE pool' = pool /\ counter' = counter - 1
         /\ PutForeign =>
             /\ putRet' = "ErrNotOwned"
             /\ UNCHANGED <<pool, counter, held, putter, closed>>
     ]_vars

\* a Put some time after the pool was built has sent a healthy connection to
\* the idle channel, stamped with the time of the Put
C29_Witness ==
  /\ putter = PutterIdle
  /\ putRet = "nil"
  /\ poolNow > 0
  /\ pool # <<>>
  /\ pool[Len(pool)] = [tstate |-> "Ready", lastUsed |-> poolNow, inUse |-> FALSE]
  /\ ~closed

\* the health pass leaves: its last step
PassEnds == checker.pc \in {"check", "topLoad"} /\ checker'.pc = "idle"

\* what the pass closes: idle since before now - MaxIdle, or not healthy
Stale(c) ==
  c.lastUsed < poolNow - config.MaxIdle \/ c.tstate \in UnhealthyStates

\* each connection the pass examines is closed with the counter decremented
\* when it is stale and goes back to the idle channel untouched otherwise;
\* when the pass ends no idle connection is stale
PassSorts ==
  /\ HealthCheckConn =>
       LET c == checker.tempConns[checker.i]
       IN IF Stale(c)
          THEN pool' = pool /\ counter' = counter - 1
          ELSE pool' = Append(pool, c) /\ counter' = counter
  /\ PassEnds => \A i \in DOMAIN pool' : ~Stale(pool'[i])

\* C30 as claimed: a health pass that runs alone closes every idle
\* connection that is stale, with the counter decremented, keeps every other
\* one idle, and ends with at least MinIdle idle connections or with the
\* counter at MaxSize.
C30_PassRestoresMinIdle ==
  [][ /\ PassSorts
      /\ PassEnds => (Len(pool') >= config.MinIdle \/ counter' >= config.MaxSize)
  ]_vars

\* C30 as amended: as above, but the pass makes MinIdle - kept attempts to
\* create a connection and does not repeat one that failed: it ends with
\* MinIdle idle connections less the creations that failed, or with the
\* counter at MaxSize.
C30_PassTopsUpOncePerSlot ==
  [][ /\ PassSorts
      /\ PassEnds =>
           \/ Len(pool') >= config.MinIdle
           \/ counter' >= config.MaxSize
           \/ /\ checker.failed >= 1
              /\ Len(pool') + checker.failed = config.MinIdle
  ]_vars

\* a pass that closed a connection and then created one is at the end of
\* its top-up loop with MinIdle idle connections
C30_Witness ==
  /\ checker.pc = "topLoad"
  /\ checker.i = checker.needed
  /\ checker.evictions >= 1
  /\ checker.failed = 0
  /\ Len(pool) = config.MinIdle
  /\ config.MinIdle >= 1

\* C22: a Put or a health pass that races with Close never panics: nothing
\* is sent to the idle channel after Close has closed it, and the health pass
\* never uses the nil that a closed channel delivers, so the connection in
\* hand is never lost to a panic.
C22_CloseRaceNeverPanics == ~panicked

(***************************************************************************)
(* conn.Manager properties                                                *)
(***************************************************************************)
\* C10: a connect that returned success (run by NewManager or by Reconnect)
\* installed a handle its loop had observed in state Ready, and the handle
\* the manager holds is never one that was not observed Ready.
C10_InstalledWasObservedReady ==
  /\ mgrConn # NoHandle => mgrConn \in observedReady
  /\ \A c \in MgrCallers :
       mgrRet[c].kind = "ok" => mgrRet[c].conn \in observedReady

\* a Reconnect that returned success after the loop had to wait for its
\* handle: the manager holds the new handle, the one NewManager installed
\* is closed
C10_Witness ==
  \E c \in MgrCallers :
    /\ mgrRet[c] = MgrOk("Reconnect", mgrConn)
    /\ mgrConn > 1
    /\ mgrConn \in observedReady
    /\ handles[1] = "Shutdown"

\* C12: GetConn never returns a handle that a Reconnect has closed and not
\* yet replaced: no call of GetConn made while a Reconnect is between its
\* close of the old handle and the installation of the new one returns a
\* handle that is closed.
C12_GetConnNeverMidSwap ==
  LET r == mgrRet[GetConnCaller]
  IN r.kind = "conn" => ~(r.closed /\ r.midSwap)

C26_ReconnectIffFailed ==
  /\ [][checkHealth =>
         /\ (caller'["hc"].op = "Reconnect")
              <=> (MgrGetState \in {"TransientFailure", "Shutdown"})
         /\ MgrGetState \in {"Idle", "Connecting", "Ready"} => caller'["hc"] = CallerIdle
         /\ handles' = handles
         /\ mgrConn' = mgrConn]_vars
  /\ [][(caller["hc"].op # "Reconnect" /\ caller'["hc"].op = "Reconnect")
         => /\ healthChecker = "running"
            /\ MgrGetState \in {"TransientFailure", "Shutdown"}]_vars

\* the checker has just sampled a manager whose handle is in
\* TransientFailure and is about to close it
C26_Witness ==
  /\ caller["hc"].op = "Reconnect"
  /\ caller["hc"].pc = "closeOld"
  /\ mgrConn # NoHandle
  /\ handles[mgrConn] = "TransientFailure"

\* no call into the manager is under way
MgrQuiescent == \A c \in MgrCallers : caller[c].pc \in {"idle", "nomanager"}

\* a handle that was dialed and not closed
LiveHandles == {h \in Handles : handles[h] \notin {"None", "Shutdown"}}

\* C24: when all Reconnect calls have returned, every handle that was dialed
\* and is not closed is the handle the manager holds.
C24_NoLiveHandleUnreferenced ==
  MgrQuiescent => \A h \in LiveHandles : h = mgrConn

\* a call of Manager.Close has returned
ManagerCloseReturned ==
  /\ mgrRet["app"].kind # "none"
  /\ mgrRet["app"].op = "Close"

\* C21: once Close has returned, GetState gives Shutdown: the manager holds
\* no handle or a closed one, also when the checker was in a Reconnect at
\* the time of the Close.
C21_CloseIsFinal == ManagerCloseReturned => MgrGetState = "Shutdown"

\* the last Reconnect of the checker returned an error
HCReconnectFailed ==
  /\ mgrRet["hc"].kind = "err"
  /\ caller["hc"].pc = "idle"

\* a step in which the transport is not connectable: a handle falls into
\* TransientFailure or out of Ready or out of a connection attempt, a dial
\* fails, or a connect runs into its timeout
TransportFails ==
  \/ \E h \in Handles :
       /\ handles'[h] # handles[h]
       /\ \/ handles'[h] = "TransientFailure"
          \/ handles[h] = "Ready" /\ handles'[h] # "Shutdown"
          \/ handles[h] = "Connecting" /\ handles'[h] = "Idle"
  \/ \E c \in MgrCallers : ConnectDial(c) /\ caller'[c].pc # "loop"
  \/ \E c \in MgrCallers : ConnectWaitExpired(c)

C11_StartStopSafe ==
  /\ ~hcPanicked
  /\ (stopChan = "open") => runLoops <= 1
  /\ (lastChange = "Start") <=> (isRunning /\ runLoops >= 1 /\ stopChan = "open")


\* C40: after a Stop() that found the checker running, every loop of the
\* checker has exited at some later time, unless the process has died of a
\* panic.
C40_StoppedLoopExits ==
  (lastChange = "Stop" /\ ~isRunning) ~> (runLoops = 0 \/ hcPanicked)

\* the loop has ticked, the checker was stopped, and no loop is left
C40_Witness ==
  /\ lastChange = "Stop"
  /\ ~isRunning
  /\ stopChan = "closed"
  /\ sampled
  /\ runLoops = 0
  /\ ~hcPanicked

====
